---- MODULE Spec2Model ----
(***************************************************************************)
(* A model of the DB Schenker shipment scraper: the scraping pipeline      *)
(* (runScraper, performSearch, acceptCookies, extractShipmentData) and the *)
(* consumer's JSON locator (extractJson / extractJsonFromStdout).          *)
(*                                                                         *)
(* The repository holds several versions of the same functions.  The      *)
(* scraper exists as                                                       *)
(*   "logic" : scrape.ts importing scrape-logic.ts                         *)
(*             (src/unnamed/part_004 + src/unnamed/part_006), and          *)
(*   "mono"  : the single-file scraper src/src/scrape.ts, lines 1-204.     *)
(* The variable `variant` says which of them a run executes.               *)
(***************************************************************************)
EXTENDS Integers, Sequences, FiniteSets, TLC

\* ------------------------------------------------------------------ bounds

\* Most history rows the page's table holds in one run of the pipeline.
MaxRunRows == 1

\* Pieces of diagnostic text around the payload on standard output.
MaxNoise == 2

\* Most history rows of the results page that extraction alone is explored with.
MaxRows == 2

\* ------------------------------------------------------------ input domains

Variants == {"logic", "mono"}

\* Reference strings passed to runScraper.
References == {"REF_A", "REF_B"}

\* process.env.SCRAPER_HEADLESS: unset, or one of these strings.
EnvValues == {"unset", "false", "0", "true"}

\* Text contents an element of the page can have after trim(); "" is also
\* what `?.textContent?.trim() || ''` gives for a missing element.
CellTexts == {"", "x"}

\* Address texts of the shipper / consignee elements.
AddressTexts == {"", "Stockholm"}

\* Text of the total-weight element, as a sequence of characters.
WeightTexts == { <<>>, <<"1", "2", ".", "5", " ", "k", "g">>, <<"k", "g">>, <<"1", " ", "2", ",", "5">>,
                 <<".", " ", "k", "g">>, <<"1", ".", "2", ".", "3">> }

\* A row of the history table: the trimmed text of its four cells.
DomRows == [event : CellTexts, date : CellTexts, location : CellTexts, reason : CellTexts]

\* The page contents a full run of the pipeline is explored with: a row that
\* carries nothing, a row with every cell filled, one address, one weight.
RunDomRows == { [event |-> "", date |-> "", location |-> "", reason |-> ""],
                [event |-> "x", date |-> "x", location |-> "x", reason |-> "x"] }
RunAddressTexts == {"Stockholm"}
RunWeightTexts == { <<"1", "2", ".", "5", " ", "k", "g">> }

RECURSIVE SeqsUpTo(_, _)
\* All sequences over S of length at most n.
SeqsUpTo(S, n) ==
  IF n = 0 THEN { <<>> }
  ELSE LET shorter == SeqsUpTo(S, n - 1)
       IN  shorter \cup { Append(s, x) : s \in { t \in shorter : Len(t) = n - 1 }, x \in S }

\* --------------------------------------------------------------- variables

VARIABLES
  variant,      \* which version of the scraper runs
  reference,    \* runScraper's argument
  argvHeaded,   \* process.argv.includes('--headed')
  argvHeadless, \* process.argv.includes('--headless')
  envVal,       \* process.env.SCRAPER_HEADLESS
  pc,           \* the position of the run inside runScraper and its callees
  trace,        \* the operations performed so far, in order, each with its result
  browser,      \* "none" | "open" | "closed": the launched browser process
  launchedHeadless, \* the headless option chromium.launch was called with
  closeCount,   \* number of browser.close() calls
  searchResult, \* how performSearch settled
  extractResult,\* how extractShipmentData settled
  partial,      \* extractShipmentData's locals read so far
  pending,      \* the completion runScraper's try/catch produced, held over the finally block
  outcome,      \* how runScraper settled
  stdout,       \* what the run wrote to process.stdout
  page          \* the texts the results page shows, where extraction is explored alone

pipelineVars == << variant, reference, argvHeaded, argvHeadless, envVal, pc, trace, browser,
                   launchedHeadless, closeCount, searchResult, extractResult, partial,
                   pending, outcome, stdout, page >>

\* The consumer that reads a scraper's standard output.
VARIABLES
  impl,         \* which version of the JSON locator the consumer runs
  wrapped,      \* whether the producer bracketed the payload with the sentinel lines
  pre,          \* the text on standard output before the payload
  payload,      \* the JSON text the producer wrote
  post,         \* the text on standard output after the payload
  lpc,          \* the consumer's position: "read" | "located" | "parsed"
  jsonSnippet,  \* the locator's result
  parsed,       \* whether JSON.parse accepted the located text
  sent,         \* the value the producer serialized, where the whole tool is explored
  decoded,      \* what JSON.parse returned
  result        \* what the tool handler returned or threw

locatorVars == << impl, wrapped, pre, payload, post, lpc, jsonSnippet, parsed, sent, decoded,
                  result >>

vars == << pipelineVars, locatorVars >>

\* ------------------------------------------------------------ values

None == [kind |-> "none"]

\* new Error(`Failed to perform search for reference ${reference}`)
SearchError(r) == [kind |-> "rejected", msg |-> "Failed to perform search for reference", ref |-> r]

\* new Error(`Failed to extract shipment data for reference ${reference}`)
ExtractError(r) == [kind |-> "rejected", msg |-> "Failed to extract shipment data for reference", ref |-> r]

\* new Error(`Scraper failed for reference ${reference}`)
ScraperError(r) == [kind |-> "rejected", msg |-> "Scraper failed for reference", ref |-> r]

\* An error thrown by playwright while the session is opened; propagated unchanged.
InfraError(r) == [kind |-> "rejected", msg |-> "browser launch failed", ref |-> r]

Resolved(v) == [kind |-> "resolved", value |-> v]

Step(op, res) == [op |-> op, res |-> res]

\* ------------------------------------------------------------ numbers

\* A JavaScript number with a finite decimal expansion: int + 0.frac, with no
\* trailing zero in frac, so that equal numbers are equal records.
Digits == {"0", "1", "2", "3", "4", "5", "6", "7", "8", "9"}

DigitVal(c) ==
  CASE c = "0" -> 0 [] c = "1" -> 1 [] c = "2" -> 2 [] c = "3" -> 3 [] c = "4" -> 4
    [] c = "5" -> 5 [] c = "6" -> 6 [] c = "7" -> 7 [] c = "8" -> 8 [] c = "9" -> 9

NaN == [nan |-> TRUE, int |-> 0, frac |-> <<>>]

Zero == [nan |-> FALSE, int |-> 0, frac |-> <<>>]

RECURSIVE StripZeros(_)
StripZeros(ds) ==
  IF ds # <<>> /\ ds[Len(ds)] = "0" THEN StripZeros(SubSeq(ds, 1, Len(ds) - 1)) ELSE ds

RECURSIVE DigitsValue(_)
DigitsValue(ds) ==
  IF ds = <<>> THEN 0 ELSE 10 * DigitsValue(SubSeq(ds, 1, Len(ds) - 1)) + DigitVal(ds[Len(ds)])

RECURSIVE LeadingDigits(_)
\* The longest prefix of s made of digits.
LeadingDigits(s) ==
  IF s # <<>> /\ s[1] \in Digits THEN << s[1] >> \o LeadingDigits(Tail(s)) ELSE <<>>

\* parseFloat on a string: the longest prefix that is a decimal literal
\* (digits, optionally a point and digits), NaN when that prefix has no digit.
parseFloat(s) ==
  LET ip   == LeadingDigits(s)
      rest == SubSeq(s, Len(ip) + 1, Len(s))
      fp   == IF rest # <<>> /\ rest[1] = "." THEN LeadingDigits(Tail(rest)) ELSE <<>>
  IN  IF ip = <<>> /\ fp = <<>> THEN NaN
      ELSE [nan |-> FALSE, int |-> DigitsValue(ip), frac |-> StripZeros(fp)]

\* weightStr.replace(/[^0-9.]/g, '')
StripNonNumeric(s) == SelectSeq(s, LAMBDA c : c \in Digits \cup {"."})

\* x || 0 for a number x: NaN and 0 are falsy.
OrZero(x) == IF x.nan \/ x = Zero THEN Zero ELSE x

\* The parse without its `|| 0`.
ParseWeightNoDefault(weightStr) == parseFloat(StripNonNumeric(weightStr))

\* parseFloat(weightStr.replace(/[^0-9.]/g, '')) || 0
ParseWeight(weightStr) == OrZero(parseFloat(StripNonNumeric(weightStr)))

\* ------------------------------------------------------------ records

\* An empty record that does not name the reference.
createEmptyShipmentAnonymous(r) ==
  [ reference |-> "",
    sender |-> [address |-> ""],
    receiver |-> [address |-> ""],
    packages |-> << [weight |-> Zero, trackingEvents |-> <<>>] >>,
    trackingHistory |-> <<>> ]

\* The canonical empty record for a reference.
createEmptyShipment(r) ==
  [ reference |-> r,
    sender |-> [address |-> ""],
    receiver |-> [address |-> ""],
    packages |-> << [weight |-> Zero, trackingEvents |-> <<>>] >>,
    trackingHistory |-> <<>> ]

\* A record whose package does not carry the history.
ShipmentOfHistoryOnly(r, shipper, consignee, weightStr, history) ==
  [ reference |-> r,
    sender |-> [address |-> shipper],
    receiver |-> [address |-> consignee],
    packages |-> << [weight |-> ParseWeight(weightStr), trackingEvents |-> <<>>] >>,
    trackingHistory |-> history ]

\* The object extractShipmentData returns on its normal path.
ShipmentOf(r, shipper, consignee, weightStr, history) ==
  [ reference |-> r,
    sender |-> [address |-> shipper],
    receiver |-> [address |-> consignee],
    packages |-> << [weight |-> ParseWeight(weightStr), trackingEvents |-> history] >>,
    trackingHistory |-> history ]

\* An event that copies the four cells as they are.
EventOfRaw(row) ==
  [ event |-> row.event, date |-> row.date, location |-> row.location, reason |-> row.reason ]

\* The event a history row maps to; `reason` is left out when the cell is empty
\* (`|| undefined`).
EventOf(row) ==
  LET base == [ event |-> IF row.event = "" THEN "Status Update" ELSE row.event,
                date |-> row.date,
                location |-> row.location ]
  IN  IF row.reason = "" THEN base
      ELSE [ event |-> base.event, date |-> base.date, location |-> base.location,
             reason |-> row.reason ]

\* scrape.ts: rows.map(...).filter(Boolean); a row with no date and no location
\* maps to null and is filtered out.
HistoryMono(rows) ==
  LET kept == SelectSeq(rows, LAMBDA row : ~(row.date = "" /\ row.location = ""))
  IN  [ i \in 1..Len(kept) |-> EventOf(kept[i]) ]

\* scrape-logic.ts: extractTrackingHistory maps every row.
extractTrackingHistory(rows) == [ i \in 1..Len(rows) |-> EventOf(rows[i]) ]

History(v, rows) == IF v = "mono" THEN HistoryMono(rows) ELSE extractTrackingHistory(rows)

\* ------------------------------------------------------------ pipeline

\* No consumer is reading.
LocatorIdle ==
  /\ impl = "index" /\ wrapped = FALSE
  /\ pre = <<>> /\ payload = <<>> /\ post = <<>>
  /\ lpc = "idle" /\ jsonSnippet = [found |-> FALSE, text |-> <<>>] /\ parsed = FALSE
  /\ sent = [t |-> "undef"] /\ decoded = [t |-> "undef"] /\ result = [kind |-> "none"]

\* The page's texts are drawn as they are read.
NoPage == [rows |-> <<>>, shipper |-> "", consignee |-> "", weight |-> <<>>]

Init ==
  /\ LocatorIdle
  /\ page = NoPage
  /\ variant \in Variants
  /\ reference \in References
  /\ argvHeaded \in BOOLEAN
  /\ argvHeadless \in BOOLEAN
  /\ envVal \in EnvValues
  /\ pc = "launch"
  /\ trace = <<>>
  /\ browser = "none"
  /\ launchedHeadless = "none"
  /\ closeCount = 0
  /\ searchResult = None
  /\ extractResult = None
  /\ partial = None
  /\ pending = None
  /\ outcome = None
  /\ stdout = <<>>

Outcomes == {"ok", "reject"}
Visibility == {"true", "false", "reject"}

\* What no step of a run of the scraper changes: its inputs, and the consumer.
inputVars == << variant, reference, argvHeaded, argvHeadless, envVal, page, locatorVars >>

\* resolveHeadless(): --headed, then --headless, then SCRAPER_HEADLESS, then true.
resolveHeadless(headed, headless, env) ==
  IF headed THEN FALSE
  ELSE IF headless THEN TRUE
  ELSE IF env \in {"false", "0"} THEN FALSE
  ELSE TRUE

\* initializeBrowser(headedOverride): the headless option it launches with.
initializeBrowserHeadless(headedOverride, env) ==
  IF headedOverride THEN FALSE ELSE ~(env \in {"false", "0"})

\* A rejection while the session is opened is outside runScraper's try block:
\* runScraper rejects with it and the finally block does not run.
OpenFails ==
  /\ outcome' = InfraError(reference)
  /\ pc' = "done"

\* chromium.launch({ headless })
Launch ==
  /\ pc = "launch"
  /\ \E res \in Outcomes :
       /\ trace' = Append(trace, Step("launch", res))
       /\ launchedHeadless' = initializeBrowserHeadless(argvHeaded, envVal)
       /\ IF res = "ok"
            THEN browser' = "open" /\ pc' = "newContext" /\ UNCHANGED outcome
            ELSE OpenFails /\ UNCHANGED browser
  /\ UNCHANGED << inputVars, closeCount, searchResult, extractResult, partial, pending, stdout >>

\* browser.newContext({ userAgent })
NewContext ==
  /\ pc = "newContext"
  /\ \E res \in Outcomes :
       /\ trace' = Append(trace, Step("newContext", res))
       /\ IF res = "ok" THEN pc' = "newPage" /\ UNCHANGED outcome ELSE OpenFails
  /\ UNCHANGED << inputVars, browser, launchedHeadless, closeCount, searchResult, extractResult,
                  partial, pending, stdout >>

\* context.newPage(); then runScraper enters its try block and calls performSearch.
NewPage ==
  /\ pc = "newPage"
  /\ \E res \in Outcomes :
       /\ trace' = Append(trace, Step("newPage", res))
       /\ IF res = "ok" THEN pc' = "goto" /\ UNCHANGED outcome ELSE OpenFails
  /\ UNCHANGED << inputVars, browser, launchedHeadless, closeCount, searchResult, extractResult,
                  partial, pending, stdout >>

\* A catch block that rethrows what it caught.
performSearchRethrow(r) == [kind |-> "rejected", msg |-> "page operation failed", ref |-> r]

\* performSearch's catch block: whatever was thrown is replaced by this error.
performSearchCatch(r) == SearchError(r)

\* A step of performSearch rejects outside any inner handler: performSearch's
\* catch block runs, performSearch rejects, and runScraper's catch block is next.
SearchThrows ==
  /\ searchResult' = performSearchCatch(reference)
  /\ pc' = "catch"

\* The steps of performSearch.  searchVars is what they leave alone.
searchUnchanged == << inputVars, browser, launchedHeadless, closeCount, extractResult, partial,
                      pending, outcome, stdout >>

\* A navigation whose failure is ignored.
GotoIgnoresFailure ==
  /\ pc = "goto"
  /\ \E res \in Outcomes :
       /\ trace' = Append(trace, Step("goto", res))
       /\ pc' = "banner" /\ UNCHANGED searchResult
  /\ UNCHANGED searchUnchanged

\* await page.goto(TRACKING_URL, { waitUntil: 'networkidle' })
Goto ==
  /\ pc = "goto"
  /\ \E res \in Outcomes :
       /\ trace' = Append(trace, Step("goto", res))
       /\ IF res = "ok" THEN pc' = "banner" /\ UNCHANGED searchResult ELSE SearchThrows
  /\ UNCHANGED searchUnchanged

\* A banner click without a handler of its own: the rejection reaches
\* performSearch's catch block.
BannerClickPropagates == SearchThrows

\* Where performSearch goes when the banner click rejects: the rejection is
\* caught (scrape.ts: try/catch around the click; scrape-logic.ts: try/catch
\* around acceptCookies' body) and the search goes on.
BannerClickRejected == pc' = "fill" /\ UNCHANGED searchResult

\* scrape.ts: try { await locator.click({ timeout: 5000 }) } catch { console.warn(...) }
BannerClickInline ==
  /\ pc = "banner"
  /\ variant = "mono"
  /\ \E res \in Outcomes :
       /\ trace' = Append(trace, Step("banner.click", res))
       /\ IF res = "ok" THEN pc' = "fill" /\ UNCHANGED searchResult ELSE BannerClickRejected
  /\ UNCHANGED searchUnchanged

\* An acceptCookies that clicks without looking at the result of isVisible.
AcceptCookiesAlwaysClicks ==
  /\ pc = "banner"
  /\ variant = "logic"
  /\ \E res \in Visibility :
       /\ trace' = Append(trace, Step("banner.isVisible", res))
       /\ pc' = "bannerClick"
  /\ UNCHANGED searchResult
  /\ UNCHANGED searchUnchanged

\* scrape-logic.ts acceptCookies: consent.isVisible({ timeout }).catch(() => false)
AcceptCookiesIsVisible ==
  /\ pc = "banner"
  /\ variant = "logic"
  /\ \E res \in Visibility :
       /\ trace' = Append(trace, Step("banner.isVisible", res))
       /\ pc' = IF res = "true" THEN "bannerClick" ELSE "fill"
  /\ UNCHANGED searchResult
  /\ UNCHANGED searchUnchanged

\* scrape-logic.ts acceptCookies: await consent.click(), inside try { } catch { }
AcceptCookiesClick ==
  /\ pc = "bannerClick"
  /\ \E res \in Outcomes :
       /\ trace' = Append(trace, Step("banner.click", res))
       /\ IF res = "ok" THEN pc' = "fill" /\ UNCHANGED searchResult ELSE BannerClickRejected
  /\ UNCHANGED searchUnchanged

\* await page.fill('input[matinput]', reference)
Fill ==
  /\ pc = "fill"
  /\ \E res \in Outcomes :
       /\ trace' = Append(trace, Step("fill", res))
       /\ IF res = "ok" THEN pc' = "submit" /\ UNCHANGED searchResult ELSE SearchThrows
  /\ UNCHANGED searchUnchanged

\* await page.click('button.hero.primary')
Submit ==
  /\ pc = "submit"
  /\ \E res \in Outcomes :
       /\ trace' = Append(trace, Step("click", res))
       /\ IF res = "ok" THEN pc' = "seeMore" /\ UNCHANGED searchResult ELSE SearchThrows
  /\ UNCHANGED searchUnchanged

\* if (await seeMore.isVisible().catch(() => false))
SeeMoreIsVisible ==
  /\ pc = "seeMore"
  /\ \E res \in Visibility :
       /\ trace' = Append(trace, Step("seeMore.isVisible", res))
       /\ pc' = IF res = "true" THEN "seeMoreClick" ELSE "settle"
  /\ UNCHANGED searchResult
  /\ UNCHANGED searchUnchanged

\* Where performSearch goes when the click on "See more" rejects: the await
\* has no handler of its own, so the rejection reaches performSearch's catch.
SeeMoreClickRejected == SearchThrows

\* await seeMore.click()
SeeMoreClick ==
  /\ pc = "seeMoreClick"
  /\ \E res \in Outcomes :
       /\ trace' = Append(trace, Step("seeMore.click", res))
       /\ IF res = "ok" THEN pc' = "seeMoreWait" /\ UNCHANGED searchResult ELSE SeeMoreClickRejected
  /\ UNCHANGED searchUnchanged

\* await page.waitForTimeout(500)
SeeMoreWait ==
  /\ pc = "seeMoreWait"
  /\ trace' = Append(trace, Step("waitForTimeout(500)", "ok"))
  /\ pc' = "settle"
  /\ UNCHANGED searchResult
  /\ UNCHANGED searchUnchanged

\* await page.waitForTimeout(2000); performSearch resolves and runScraper
\* calls extractShipmentData.
Settle ==
  /\ pc = "settle"
  /\ trace' = Append(trace, Step("waitForTimeout(2000)", "ok"))
  /\ searchResult' = Resolved("undefined")
  /\ pc' = "evalRows"
  /\ UNCHANGED searchUnchanged

\* ------------------------------------------------------------ extraction

\* extractShipmentData's outer catch block.  scrape-logic.ts returns the
\* canonical empty record; scrape.ts logs and throws a new error.
extractShipmentDataCatch(v, r) ==
  IF v = "logic" THEN Resolved(createEmptyShipment(r)) ELSE ExtractError(r)

safeGetTextUnguarded(res, text, empty) == text

\* safeGetText: the element's text, or '' (given as `empty`) when page.$eval rejects.
safeGetText(res, text, empty) == IF res = "ok" THEN text ELSE empty

extractUnchanged == << inputVars, browser, launchedHeadless, closeCount, searchResult, pending,
                       outcome, stdout >>

\* const history = await page.$$eval('tbody tr.ng-star-inserted', ...)
\* (scrape-logic.ts: await extractTrackingHistory(page))
EvalRowsOf(rowSeqs) ==
  /\ pc = "evalRows"
  /\ \E res \in Outcomes, rows \in rowSeqs :
       /\ trace' = Append(trace, Step("$$eval", res))
       /\ IF res = "ok"
            THEN /\ partial' = [kind |-> "rows", rows |-> rows, history |-> History(variant, rows)]
                 /\ pc' = "shipper"
                 /\ UNCHANGED extractResult
            ELSE /\ extractResult' = extractShipmentDataCatch(variant, reference)
                 /\ pc' = IF extractResult'.kind = "resolved" THEN "write" ELSE "catch"
                 /\ UNCHANGED partial
  /\ UNCHANGED extractUnchanged

\* const shipper = await safeGetText('[data-test="shipper_place_value"]')
GetShipperOf(texts) ==
  /\ pc = "shipper"
  /\ \E res \in Outcomes, text \in texts :
       /\ trace' = Append(trace, Step("$eval.shipper", res))
       /\ partial' = [kind |-> "shipper", rows |-> partial.rows, history |-> partial.history,
                      shipper |-> safeGetText(res, text, "")]
  /\ pc' = "consignee"
  /\ UNCHANGED extractResult
  /\ UNCHANGED extractUnchanged

\* const consignee = await safeGetText('[data-test="consignee_place_value"]')
GetConsigneeOf(texts) ==
  /\ pc = "consignee"
  /\ \E res \in Outcomes, text \in texts :
       /\ trace' = Append(trace, Step("$eval.consignee", res))
       /\ partial' = [kind |-> "consignee", rows |-> partial.rows, history |-> partial.history,
                      shipper |-> partial.shipper, consignee |-> safeGetText(res, text, "")]
  /\ pc' = "weight"
  /\ UNCHANGED extractResult
  /\ UNCHANGED extractUnchanged

\* const weightStr = await safeGetText('[data-test="total_weight_value"]');
\* then extractShipmentData returns the assembled record.
GetWeightOf(texts) ==
  /\ pc = "weight"
  /\ \E res \in Outcomes, text \in texts :
       LET weightStr == safeGetText(res, text, <<>>)
       IN  /\ trace' = Append(trace, Step("$eval.weight", res))
           /\ partial' = [kind |-> "weight", rows |-> partial.rows, history |-> partial.history,
                          shipper |-> partial.shipper, consignee |-> partial.consignee,
                          weightStr |-> weightStr]
           /\ extractResult' = Resolved(ShipmentOf(reference, partial.shipper, partial.consignee,
                                                   weightStr, partial.history))
  /\ pc' = "write"
  /\ UNCHANGED extractUnchanged

\* ------------------------------------------------------------ runScraper

\* A runScraper that writes the record twice.
WriteTwiceAndReturn ==
  /\ pc = "write"
  /\ stdout' = stdout \o << extractResult.value, extractResult.value >>
  /\ trace' = Append(trace, Step("stdout.write", "ok"))
  /\ pending' = Resolved(extractResult.value)
  /\ pc' = "finally"
  /\ UNCHANGED << inputVars, browser, launchedHeadless, closeCount, searchResult, extractResult,
                  partial, outcome >>

\* process.stdout.write(JSON.stringify(data, null, 2)); return data;
WriteAndReturn ==
  /\ pc = "write"
  /\ stdout' = Append(stdout, extractResult.value)
  /\ trace' = Append(trace, Step("stdout.write", "ok"))
  /\ pending' = Resolved(extractResult.value)
  /\ pc' = "finally"
  /\ UNCHANGED << inputVars, browser, launchedHeadless, closeCount, searchResult, extractResult,
                  partial, outcome >>

\* A catch block that only logs, so that the run resolves with undefined.
runScraperCatchSwallow(r) == Resolved("undefined")

\* runScraper's catch block: console.error, then throw a new error.
runScraperCatch(r) == ScraperError(r)

Catch ==
  /\ pc = "catch"
  /\ pending' = runScraperCatch(reference)
  /\ pc' = "finally"
  /\ UNCHANGED << inputVars, trace, browser, launchedHeadless, closeCount, searchResult,
                  extractResult, partial, outcome, stdout >>

\* A runScraper whose close sits at the end of the try block instead of in a
\* finally block: the browser is closed only when the run succeeded.
FinallyOnlyOnSuccess ==
  /\ pc = "finally"
  /\ IF pending.kind = "resolved"
       THEN /\ closeCount' = closeCount + 1
            /\ browser' = "closed"
            /\ trace' = Append(trace, Step("close", "ok"))
       ELSE UNCHANGED << closeCount, browser, trace >>
  /\ pc' = "settled"
  /\ UNCHANGED << inputVars, launchedHeadless, searchResult, extractResult, partial, pending,
                  outcome, stdout >>

\* finally { await browser.close(); }
Finally ==
  /\ pc = "finally"
  /\ closeCount' = closeCount + 1
  /\ browser' = "closed"
  /\ trace' = Append(trace, Step("close", "ok"))
  /\ pc' = "settled"
  /\ UNCHANGED << inputVars, launchedHeadless, searchResult, extractResult, partial, pending,
                  outcome, stdout >>

\* The promise runScraper returned settles with the pending completion.
Deliver ==
  /\ pc = "settled"
  /\ outcome' = pending
  /\ pc' = "done"
  /\ UNCHANGED << inputVars, trace, browser, launchedHeadless, closeCount, searchResult,
                  extractResult, partial, pending, stdout >>

EvalRows == EvalRowsOf(SeqsUpTo(RunDomRows, MaxRunRows))
GetShipper == GetShipperOf(RunAddressTexts)
GetConsignee == GetConsigneeOf(RunAddressTexts)
GetWeight == GetWeightOf(RunWeightTexts)

Next ==
  \/ Launch \/ NewContext \/ NewPage
  \/ Goto \/ BannerClickInline \/ AcceptCookiesIsVisible \/ AcceptCookiesClick
  \/ Fill \/ Submit \/ SeeMoreIsVisible \/ SeeMoreClick \/ SeeMoreWait \/ Settle
  \/ EvalRows \/ GetShipper \/ GetConsignee \/ GetWeight
  \/ WriteAndReturn \/ Catch \/ Finally \/ Deliver

Spec == Init /\ [][Next]_vars

\* ------------------------------------------------------------ the older scraper

\* The repository also holds the scraper as one inline runScraper that
\* launches the browser, searches, parses the page and prints the record:
\*   "inline" : src/src/scrape.ts, lines 205-323, and
\*   "draft"  : src/unnamed/part_007.
LegacyVariants == {"inline", "draft"}

\* undefined, as the value an async function resolves with when it returns nothing.
Undefined == [undefined |-> TRUE]

\* let headless = true; if (typeof envVal === 'string') headless = !(...);
\* if (argv.includes('--headed')) headless = false;
\* if (argv.includes('--headless')) headless = true;
legacyHeadless(headed, headless, env) ==
  IF headless THEN TRUE
  ELSE IF headed THEN FALSE
  ELSE IF env = "unset" THEN TRUE
  ELSE ~(env \in {"false", "0"})

\* The object parseSchenkerHtml returns; part_007 names the two parties.
legacyShipment(v, r, shipper, consignee, weightStr, history) ==
  IF v = "inline" THEN ShipmentOf(r, shipper, consignee, weightStr, history)
  ELSE [ reference |-> r,
         sender |-> [name |-> "Shipper", address |-> shipper],
         receiver |-> [name |-> "Consignee", address |-> consignee],
         packages |-> << [weight |-> ParseWeight(weightStr), trackingEvents |-> history] >>,
         trackingHistory |-> history ]

\* What runScraper prints: scrape.ts one process.stdout.write of the record;
\* part_007 four console.log lines, the record between the sentinel lines.
legacyOutput(v, data) ==
  IF v = "inline" THEN << data >>
  ELSE << [line |-> "--- Extracted Data ---"], [line |-> "---JSON-START---"], data,
          [line |-> "---JSON-END---"] >>

InitLegacy ==
  /\ LocatorIdle
  /\ page = NoPage
  /\ variant \in LegacyVariants
  /\ reference \in References
  /\ argvHeaded \in BOOLEAN
  /\ argvHeadless \in BOOLEAN
  /\ envVal \in EnvValues
  /\ pc = "L.launch"
  /\ trace = <<>>
  /\ browser = "none"
  /\ launchedHeadless = "none"
  /\ closeCount = 0
  /\ searchResult = None
  /\ extractResult = None
  /\ partial = None
  /\ pending = None
  /\ outcome = None
  /\ stdout = <<>>

\* What an awaited page operation leaves alone.
legacyUnchanged == << inputVars, browser, launchedHeadless, closeCount, searchResult,
                      extractResult, partial, pending, outcome, stdout >>

\* An awaited operation at position `at`: on success the run goes on at
\* `next`, on a rejection at `onReject` (the catch block, or the next
\* statement when the rejection is swallowed where it occurs).
LegacyAwait(at, op, next, onReject) ==
  /\ pc = at
  /\ \E res \in Outcomes :
       /\ trace' = Append(trace, Step(op, res))
       /\ pc' = IF res = "ok" THEN next ELSE onReject
  /\ UNCHANGED legacyUnchanged

\* const browser = await chromium.launch({ headless }), before the try block.
LegacyLaunch ==
  /\ pc = "L.launch"
  /\ \E res \in Outcomes :
       /\ trace' = Append(trace, Step("launch", res))
       /\ launchedHeadless' = legacyHeadless(argvHeaded, argvHeadless, envVal)
       /\ IF res = "ok"
            THEN browser' = "open" /\ pc' = "L.newContext" /\ UNCHANGED outcome
            ELSE OpenFails /\ UNCHANGED browser
  /\ UNCHANGED << inputVars, closeCount, searchResult, extractResult, partial, pending, stdout >>

\* const context = await browser.newContext(...); const page = await context.newPage()
LegacyOpen(at, op, next) ==
  /\ pc = at
  /\ \E res \in Outcomes :
       /\ trace' = Append(trace, Step(op, res))
       /\ IF res = "ok" THEN pc' = next /\ UNCHANGED outcome ELSE OpenFails
  /\ UNCHANGED << inputVars, browser, launchedHeadless, closeCount, searchResult, extractResult,
                  partial, pending, stdout >>

LegacyNewContext == LegacyOpen("L.newContext", "newContext", "L.newPage")

LegacyNewPage == LegacyOpen("L.newPage", "newPage", "L.goto")

\* await page.goto(TRACKING_URL, { waitUntil: 'networkidle' })
LegacyGoto == LegacyAwait("L.goto", "goto", "L.banner", "L.catch")

\* scrape.ts: await acceptBtn.first().click({ timeout: 5000 }).catch(() => {})
LegacyBannerClick ==
  variant = "inline" /\ LegacyAwait("L.banner", "banner.click", "L.fill", "L.fill")

\* part_007: try { await acceptBtn.waitFor({ state: 'visible' }); ...
LegacyBannerWaitFor ==
  variant = "draft" /\ LegacyAwait("L.banner", "banner.waitFor", "L.bannerClick", "L.fill")

\* part_007: ... await acceptBtn.first().click(); } catch (e) { console.log(...) }
LegacyBannerClickAfterWait == LegacyAwait("L.bannerClick", "banner.click", "L.fill", "L.fill")

\* await page.fill('input[matinput]', reference)
LegacyFill == LegacyAwait("L.fill", "fill", "L.submit", "L.catch")

\* await page.click('button.hero.primary')
LegacySubmit == LegacyAwait("L.submit", "click", "L.seeMore", "L.catch")

\* scrape.ts: if (await seeMore.isVisible().catch(() => false));
\* part_007: if (await seeMore.isVisible()), whose rejection reaches the catch block.
LegacySeeMoreIsVisible ==
  /\ pc = "L.seeMore"
  /\ \E res \in Visibility :
       /\ trace' = Append(trace, Step("seeMore.isVisible", res))
       /\ pc' = CASE res = "true" -> "L.seeMoreClick"
                  [] res = "false" -> "L.settle"
                  [] res = "reject" -> IF variant = "inline" THEN "L.settle" ELSE "L.catch"
  /\ UNCHANGED legacyUnchanged

\* scrape.ts: await seeMore.click().catch(() => {}); part_007: await seeMore.click()
LegacySeeMoreClick ==
  LegacyAwait("L.seeMoreClick", "seeMore.click", "L.seeMoreWait",
              IF variant = "inline" THEN "L.seeMoreWait" ELSE "L.catch")

\* await page.waitForTimeout(500)
LegacySeeMoreWait ==
  /\ pc = "L.seeMoreWait"
  /\ trace' = Append(trace, Step("waitForTimeout(500)", "ok"))
  /\ pc' = "L.settle"
  /\ UNCHANGED legacyUnchanged

\* await page.waitForTimeout(2000) (part_007: 5000); then parseSchenkerHtml is called.
LegacySettle ==
  /\ pc = "L.settle"
  /\ trace' = Append(trace, Step("waitForTimeout(2000)", "ok"))
  /\ pc' = "L.rows"
  /\ UNCHANGED legacyUnchanged

\* The error page.$$eval rejected with; parseSchenkerHtml has no try block.
PageError(r) == [kind |-> "rejected", msg |-> "page evaluation failed", ref |-> r]

parseUnchanged == << inputVars, browser, launchedHeadless, closeCount, searchResult, pending,
                     outcome, stdout >>

\* parseSchenkerHtml: const history = await page.$$eval('tbody tr.ng-star-inserted', ...),
\* rows without date and location filtered out.
LegacyEvalRows ==
  /\ pc = "L.rows"
  /\ \E res \in Outcomes, rows \in SeqsUpTo(RunDomRows, MaxRunRows) :
       /\ trace' = Append(trace, Step("$$eval", res))
       /\ IF res = "ok"
            THEN /\ partial' = [kind |-> "rows", rows |-> rows, history |-> HistoryMono(rows)]
                 /\ pc' = "L.shipper"
                 /\ UNCHANGED extractResult
            ELSE /\ extractResult' = PageError(reference)
                 /\ pc' = "L.catch"
                 /\ UNCHANGED partial
  /\ UNCHANGED parseUnchanged

\* const shipper = await getText('[data-test="shipper_place_value"]'); getText
\* returns '' when page.$eval rejects.
LegacyGetShipper ==
  /\ pc = "L.shipper"
  /\ \E res \in Outcomes, text \in RunAddressTexts :
       /\ trace' = Append(trace, Step("$eval.shipper", res))
       /\ partial' = [kind |-> "shipper", rows |-> partial.rows, history |-> partial.history,
                      shipper |-> safeGetText(res, text, "")]
  /\ pc' = "L.consignee"
  /\ UNCHANGED extractResult
  /\ UNCHANGED parseUnchanged

\* const consignee = await getText('[data-test="consignee_place_value"]')
LegacyGetConsignee ==
  /\ pc = "L.consignee"
  /\ \E res \in Outcomes, text \in RunAddressTexts :
       /\ trace' = Append(trace, Step("$eval.consignee", res))
       /\ partial' = [kind |-> "consignee", rows |-> partial.rows, history |-> partial.history,
                      shipper |-> partial.shipper, consignee |-> safeGetText(res, text, "")]
  /\ pc' = "L.weight"
  /\ UNCHANGED extractResult
  /\ UNCHANGED parseUnchanged

\* const weightStr = (await getText('[data-test="total_weight_value"]')) || '';
\* then parseSchenkerHtml returns the record.
LegacyGetWeight ==
  /\ pc = "L.weight"
  /\ \E res \in Outcomes, text \in RunWeightTexts :
       LET weightStr == safeGetText(res, text, <<>>)
       IN  /\ trace' = Append(trace, Step("$eval.weight", res))
           /\ partial' = [kind |-> "weight", rows |-> partial.rows, history |-> partial.history,
                          shipper |-> partial.shipper, consignee |-> partial.consignee,
                          weightStr |-> weightStr]
           /\ extractResult' = Resolved(legacyShipment(variant, reference, partial.shipper,
                                                       partial.consignee, weightStr,
                                                       partial.history))
  /\ pc' = "L.write"
  /\ UNCHANGED parseUnchanged

\* process.stdout.write(JSON.stringify(data)) (part_007: console.log); return data;
LegacyWriteAndReturn ==
  /\ pc = "L.write"
  /\ stdout' = stdout \o legacyOutput(variant, extractResult.value)
  /\ trace' = Append(trace, Step("stdout.write", "ok"))
  /\ pending' = Resolved(extractResult.value)
  /\ pc' = "finally"
  /\ UNCHANGED << inputVars, browser, launchedHeadless, closeCount, searchResult, extractResult,
                  partial, outcome >>

\* catch (err) { console.error('Scrape failed:', err); }: nothing is thrown, and
\* the function returns nothing.
legacyCatch(r) == Resolved(Undefined)

LegacyCatch ==
  /\ pc = "L.catch"
  /\ pending' = legacyCatch(reference)
  /\ pc' = "finally"
  /\ UNCHANGED << inputVars, trace, browser, launchedHeadless, closeCount, searchResult,
                  extractResult, partial, outcome, stdout >>

\* The finally block and the settling of the promise are those of runScraper above.
NextLegacy ==
  \/ LegacyLaunch \/ LegacyNewContext \/ LegacyNewPage
  \/ LegacyGoto \/ LegacyBannerClick \/ LegacyBannerWaitFor \/ LegacyBannerClickAfterWait
  \/ LegacyFill \/ LegacySubmit \/ LegacySeeMoreIsVisible \/ LegacySeeMoreClick
  \/ LegacySeeMoreWait \/ LegacySettle
  \/ LegacyEvalRows \/ LegacyGetShipper \/ LegacyGetConsignee \/ LegacyGetWeight
  \/ LegacyWriteAndReturn \/ LegacyCatch \/ Finally \/ Deliver

SpecLegacy == InitLegacy /\ [][NextLegacy]_vars

\* Every version of runScraper.
InitAllRuns == Init \/ InitLegacy

NextAllRuns == Next \/ NextLegacy

SpecAllRuns == InitAllRuns /\ [][NextAllRuns]_vars

\* ------------------------------------------------------------ extraction alone

\* Rows of the history table: each of event, date and location present or
\* not, the reason cell filled when the event cell is.
ExtractRows == { row \in DomRows : row.reason = row.event }

\* What the results page can show.
Pages == [ rows : SeqsUpTo(ExtractRows, MaxRows), shipper : AddressTexts,
           consignee : AddressTexts, weight : WeightTexts ]

\* extractShipmentData(page, reference) is called on a page that shows results.
InitExtract ==
  /\ LocatorIdle
  /\ variant \in Variants
  /\ reference = "REF_A"
  /\ argvHeaded = FALSE /\ argvHeadless = FALSE /\ envVal = "unset"
  /\ page \in Pages
  /\ pc = "evalRows"
  /\ trace = <<>>
  /\ browser = "open"
  /\ launchedHeadless = TRUE
  /\ closeCount = 0
  /\ searchResult = Resolved("undefined")
  /\ extractResult = None
  /\ partial = None
  /\ pending = None
  /\ outcome = None
  /\ stdout = <<>>

ReadRows == EvalRowsOf({page.rows})
ReadShipper == GetShipperOf({page.shipper})
ReadConsignee == GetConsigneeOf({page.consignee})
ReadWeight == GetWeightOf({page.weight})

NextExtract == ReadRows \/ ReadShipper \/ ReadConsignee \/ ReadWeight

SpecExtract == InitExtract /\ [][NextExtract]_vars

\* ------------------------------------------------------------ strings

\* Texts are sequences of one-character strings; indices are JavaScript's
\* (the first character has index 0, -1 means "not found").

startTag == << "-", "-", "-", "J", "S", "O", "N", "-", "S", "T", "A", "R", "T", "-", "-", "-" >>
endTag   == << "-", "-", "-", "J", "S", "O", "N", "-", "E", "N", "D", "-", "-", "-" >>

WhiteSpace == {" ", "\n"}

\* s.indexOf(t)
indexOf(s, t) ==
  LET hits == { i \in 0..(Len(s) - Len(t)) : SubSeq(s, i + 1, i + Len(t)) = t }
  IN  IF hits = {} THEN -1 ELSE CHOOSE i \in hits : \A j \in hits : i <= j

\* s.lastIndexOf(t)
lastIndexOf(s, t) ==
  LET hits == { i \in 0..(Len(s) - Len(t)) : SubSeq(s, i + 1, i + Len(t)) = t }
  IN  IF hits = {} THEN -1 ELSE CHOOSE i \in hits : \A j \in hits : i >= j

\* s.slice(from, to) for 0 <= from and 0 <= to: empty when to <= from.
slice(s, from, to) ==
  LET hi == IF to > Len(s) THEN Len(s) ELSE to
  IN  IF hi <= from THEN <<>> ELSE SubSeq(s, from + 1, hi)

RECURSIVE trimStart(_)
trimStart(s) == IF s # <<>> /\ s[1] \in WhiteSpace THEN trimStart(Tail(s)) ELSE s

RECURSIVE trimEnd(_)
trimEnd(s) ==
  IF s # <<>> /\ s[Len(s)] \in WhiteSpace THEN trimEnd(SubSeq(s, 1, Len(s) - 1)) ELSE s

\* s.trim()
trim(s) == trimEnd(trimStart(s))

\* ------------------------------------------------------------ JSON locator

NotFound == [found |-> FALSE, text |-> <<>>]
Found(t) == [found |-> TRUE, text |-> t]

\* The scanner's state after reading character ch outside the `continue`
\* branches is folded into one record: depth, inString, quote, esc.
ScanStart == [depth |-> 0, inString |-> FALSE, quote |-> "", esc |-> FALSE]

\* One character read while inside a string literal.
ScanInStringNoEscape(st, ch) ==
  IF ch = st.quote THEN [st EXCEPT !.inString = FALSE] ELSE st

ScanInString(st, ch) ==
  IF st.esc THEN [st EXCEPT !.esc = FALSE]
  ELSE IF ch = "\\" THEN [st EXCEPT !.esc = TRUE]
  ELSE IF ch = st.quote THEN [st EXCEPT !.inString = FALSE]
  ELSE st

\* One character read outside a string literal.
ScanOutside(st, ch, openChar, closeChar) ==
  IF ch \in {"\"", "'"} THEN [st EXCEPT !.inString = TRUE, !.quote = ch]
  ELSE IF ch = openChar THEN [st EXCEPT !.depth = st.depth + 1]
  ELSE IF ch = closeChar THEN [st EXCEPT !.depth = st.depth - 1]
  ELSE st

\* The loop body for the character at index i: the state after it, and
\* whether the loop returns there (a closing character brought the depth to 0).
ScanStep(s, i, st, openChar, closeChar) ==
  LET ch == s[i + 1]
  IN  IF st.inString THEN [at |-> -1, st |-> ScanInString(st, ch)]
      ELSE LET nx == ScanOutside(st, ch, openChar, closeChar)
           IN  [at |-> IF ch = closeChar /\ nx.depth = 0 THEN i ELSE -1, st |-> nx]

RECURSIVE ScanFrom(_, _, _, _, _, _)
\* for (let i = from; i < to; i++) { ... } entered in state st: the index at
\* which the loop returns (-1 when it runs to the end) and the state there.
\* The range is walked in halves, left half first, which visits the
\* characters in the loop's order.
ScanFrom(s, from, to, st, openChar, closeChar) ==
  IF to <= from THEN [at |-> -1, st |-> st]
  ELSE IF to = from + 1 THEN ScanStep(s, from, st, openChar, closeChar)
  ELSE LET mid  == (from + to) \div 2
           left == ScanFrom(s, from, mid, st, openChar, closeChar)
       IN  IF left.at # -1 THEN left
           ELSE ScanFrom(s, mid, to, left.st, openChar, closeChar)

\* The slice from `start` through the character at which the loop returns,
\* or null.
ScanResult(s, start, openChar, closeChar) ==
  LET end == ScanFrom(s, start, Len(s), ScanStart, openChar, closeChar).at
  IN  IF end = -1 THEN NotFound ELSE Found(slice(s, start, end + 1))

balancedScanBracesOnly(s) ==
  LET idxBrace == indexOf(s, << "{" >>)
  IN  IF idxBrace = -1 THEN NotFound
      ELSE ScanResult(s, idxBrace, "{", "}")

\* The balanced-brace extractor: index.ts extractJson, and the fallback of
\* the sentinel-aware extractJson / extractJsonFromStdout.
balancedScan(s) ==
  LET idxBrace   == indexOf(s, << "{" >>)
      idxBracket == indexOf(s, << "[" >>)
      start      == IF idxBrace = -1 THEN idxBracket
                    ELSE IF idxBracket = -1 THEN idxBrace
                    ELSE IF idxBrace < idxBracket THEN idxBrace ELSE idxBracket
      openChar   == IF start = idxBrace THEN "{" ELSE "["
      closeChar  == IF openChar = "{" THEN "}" ELSE "]"
  IN  IF idxBrace = -1 /\ idxBracket = -1 THEN NotFound
      ELSE ScanResult(s, start, openChar, closeChar)

\* if (start !== -1 && end !== -1 && end > start)
sentinelPair(s) ==
  LET start == indexOf(s, startTag)
      end   == indexOf(s, endTag)
  IN  start # -1 /\ end # -1 /\ end > start

betweenSentinelsUntrimmed(s) ==
  slice(s, indexOf(s, startTag) + Len(startTag), indexOf(s, endTag))

\* s.slice(start + startTag.length, end).trim()
betweenSentinels(s) ==
  trim(slice(s, indexOf(s, startTag) + Len(startTag), indexOf(s, endTag)))

\* index.ts: extractJson has the balanced scan only.
extractJsonIndex(s) == balancedScan(s)

\* part_002 extractJson and part_001 extractJsonFromStdout: sentinels first.
extractJsonSentinel(s) ==
  IF sentinelPair(s) THEN Found(betweenSentinels(s)) ELSE balancedScan(s)

\* part_000 extractJsonFromStdout, up to JSON.parse: sentinels first, else
\* from the first '{' to the last '}'; 'No JSON found' when either is missing.
extractJsonHarness(s) ==
  IF sentinelPair(s) THEN Found(betweenSentinels(s))
  ELSE LET startIdx == indexOf(s, << "{" >>)
           endIdx   == lastIndexOf(s, << "}" >>)
       IN  IF startIdx = -1 \/ endIdx = -1 THEN NotFound
           ELSE Found(slice(s, startIdx, endIdx + 1))

Locators == {"index", "sentinel", "harness"}

extractJson(version, s) ==
  CASE version = "index"    -> extractJsonIndex(s)
    [] version = "sentinel" -> extractJsonSentinel(s)
    [] version = "harness"  -> extractJsonHarness(s)

\* ------------------------------------------------------------ JSON values

\* A string literal: the body between double quotes.
Quoted(body) == << "\"" >> \o body \o << "\"" >>


\* The characters of the strings that records and their keys are made of.
Chars(str) ==
  CASE str = "" -> <<>>
    [] str = "reference" -> << "r", "e", "f", "e", "r", "e", "n", "c", "e" >>
    [] str = "sender" -> << "s", "e", "n", "d", "e", "r" >>
    [] str = "receiver" -> << "r", "e", "c", "e", "i", "v", "e", "r" >>
    [] str = "address" -> << "a", "d", "d", "r", "e", "s", "s" >>
    [] str = "name" -> << "n", "a", "m", "e" >>
    [] str = "packages" -> << "p", "a", "c", "k", "a", "g", "e", "s" >>
    [] str = "weight" -> << "w", "e", "i", "g", "h", "t" >>
    [] str = "trackingEvents" -> << "t", "r", "a", "c", "k", "i", "n", "g", "E", "v", "e", "n", "t", "s" >>
    [] str = "trackingHistory" -> << "t", "r", "a", "c", "k", "i", "n", "g", "H", "i", "s", "t", "o", "r", "y" >>
    [] str = "pieceId" -> << "p", "i", "e", "c", "e", "I", "d" >>
    [] str = "dimensions" -> << "d", "i", "m", "e", "n", "s", "i", "o", "n", "s" >>
    [] str = "event" -> << "e", "v", "e", "n", "t" >>
    [] str = "date" -> << "d", "a", "t", "e" >>
    [] str = "location" -> << "l", "o", "c", "a", "t", "i", "o", "n" >>
    [] str = "reason" -> << "r", "e", "a", "s", "o", "n" >>
    [] str = "structuredContent" -> << "s", "t", "r", "u", "c", "t", "u", "r", "e", "d", "C", "o", "n", "t", "e", "n", "t" >>
    [] str = "No JSON found" -> << "N", "o", " ", "J", "S", "O", "N", " ", "f", "o", "u", "n", "d" >>
    [] str = "TypeError" -> << "T", "y", "p", "e", "E", "r", "r", "o", "r" >>
    [] str = "ZodError" -> << "Z", "o", "d", "E", "r", "r", "o", "r" >>
    [] str = "SyntaxError" -> << "S", "y", "n", "t", "a", "x", "E", "r", "r", "o", "r" >>
    [] str = "error" -> << "e", "r", "r", "o", "r" >>
    [] str = "REF_A" -> << "R", "E", "F", "_", "A" >>
    [] str = "REF_B" -> << "R", "E", "F", "_", "B" >>
    [] str = "Stockholm" -> << "S", "t", "o", "c", "k", "h", "o", "l", "m" >>
    [] str = "x" -> << "x" >>
    [] str = "Status Update" -> << "S", "t", "a", "t", "u", "s", " ", "U", "p", "d", "a", "t", "e" >>
    [] str = "kg" -> << "k", "g" >>
    [] str = "A\"{" -> << "A", "\"", "{" >>

\* A decoded JSON value, or undefined.  Strings hold their characters, an
\* object is a function from the characters of its keys to its values.
JUndef == [t |-> "undef"]
JNull == [t |-> "null"]
JStr(chars) == [t |-> "str", v |-> chars]
JNum(n) == [t |-> "num", v |-> n]
JArr(items) == [t |-> "arr", v |-> items]
JObj(fields) == [t |-> "obj", v |-> fields]

\* An object literal as the code writes it: its properties in order, each a
\* pair of a key and a value; `lit` marks what still has its key order.
LObj(props) == [t |-> "lit", v |-> props]

Prop(key, value) == << Chars(key), value >>

RECURSIVE FieldsOf(_)
\* The properties of an object literal as a function; a later property of
\* the same key wins.
FieldsOf(props) ==
  IF props = <<>> THEN << >>
  ELSE LET last == props[Len(props)]
           init == FieldsOf(SubSeq(props, 1, Len(props) - 1))
       IN  [ k \in (DOMAIN init) \cup { last[1] } |-> IF k = last[1] THEN last[2] ELSE init[k] ]

RECURSIVE Value(_)
\* The value an expression made of object literals denotes.
Value(x) ==
  CASE x.t = "lit" -> JObj(FieldsOf([ i \in 1..Len(x.v) |-> << x.v[i][1], Value(x.v[i][2]) >> ]))
    [] x.t = "arr" -> JArr([ i \in 1..Len(x.v) |-> Value(x.v[i]) ])
    [] OTHER -> x

\* ------------------------------------------------------------ JSON.stringify

RECURSIVE IntDigits(_)
\* The decimal digits of a natural number.
IntDigits(n) ==
  LET d == CHOOSE c \in Digits : DigitVal(c) = n % 10
  IN  IF n < 10 THEN << d >> ELSE IntDigits(n \div 10) \o << d >>

\* A number as JSON.stringify writes it; NaN is written as null.
NumberText(n) ==
  IF n.nan THEN << "n", "u", "l", "l" >>
  ELSE IntDigits(n.int) \o (IF n.frac = <<>> THEN <<>> ELSE << "." >> \o n.frac)

\* A character inside a string literal: quote, backslash and newline escaped.
EscapeChar(c) ==
  CASE c = "\"" -> << "\\", "\"" >>
    [] c = "\\" -> << "\\", "\\" >>
    [] c = "\n" -> << "\\", "n" >>
    [] OTHER -> << c >>

RECURSIVE Escape(_)
Escape(chars) == IF chars = <<>> THEN <<>> ELSE EscapeChar(Head(chars)) \o Escape(Tail(chars))

\* '\n' and the indentation of a nesting level, two spaces a level.
NewLine(level) == << "\n" >> \o [ i \in 1..(2 * level) |-> " " ]

RECURSIVE JoinLines(_, _)
\* The texts joined by ',' and a new line at the level.
JoinLines(texts, level) ==
  IF Len(texts) = 1 THEN texts[1]
  ELSE texts[1] \o << "," >> \o NewLine(level) \o JoinLines(Tail(texts), level)

RECURSIVE StringifyAt(_, _)
\* JSON.stringify(x, null, 2) of a value nested `level` deep.  A property
\* whose value is undefined is left out; undefined in an array is null.
StringifyAt(x, level) ==
  CASE x.t = "str" -> Quoted(Escape(x.v))
    [] x.t = "num" -> NumberText(x.v)
    [] x.t \in {"null", "undef"} -> << "n", "u", "l", "l" >>
    [] x.t = "arr" ->
         IF x.v = <<>> THEN << "[", "]" >>
         ELSE << "[" >> \o NewLine(level + 1)
              \o JoinLines([ i \in 1..Len(x.v) |-> StringifyAt(x.v[i], level + 1) ], level + 1)
              \o NewLine(level) \o << "]" >>
    [] x.t = "lit" ->
         LET props == SelectSeq(x.v, LAMBDA pr : pr[2].t # "undef")
         IN  IF props = <<>> THEN << "{", "}" >>
             ELSE << "{" >> \o NewLine(level + 1)
                  \o JoinLines([ i \in 1..Len(props) |->
                                   Quoted(Escape(props[i][1])) \o << ":", " " >>
                                     \o StringifyAt(props[i][2], level + 1) ], level + 1)
                  \o NewLine(level) \o << "}" >>

\* JSON.stringify(data, null, 2)
Stringify(x) == StringifyAt(x, 0)

\* ------------------------------------------------------------ JSON.parse

Escapable == {"\"", "\\", "/", "b", "f", "n", "r", "t"}

RECURSIVE skipWs(_, _)
\* The index of the first character at or after i that is not white space.
skipWs(s, i) == IF i < Len(s) /\ s[i + 1] \in WhiteSpace THEN skipWs(s, i + 1) ELSE i

RECURSIVE stringEnd(_, _)
\* i is the index after an opening quote: the index after the closing quote,
\* or -1 when the string literal is malformed.
stringEnd(s, i) ==
  IF i >= Len(s) THEN -1
  ELSE LET ch == s[i + 1]
       IN  IF ch = "\"" THEN i + 1
           ELSE IF ch = "\\"
             THEN IF i + 1 < Len(s) /\ s[i + 2] \in Escapable THEN stringEnd(s, i + 2) ELSE -1
           ELSE IF ch = "\n" THEN -1
           ELSE stringEnd(s, i + 1)

RECURSIVE digitsEnd(_, _)
digitsEnd(s, i) == IF i < Len(s) /\ s[i + 1] \in Digits THEN digitsEnd(s, i + 1) ELSE i

\* i is the index of a digit: the index after the number, digits and
\* optionally a point and digits, or -1 when no digit follows the point.
numberEnd(s, i) ==
  LET e == digitsEnd(s, i)
  IN  IF e < Len(s) /\ s[e + 1] = "."
        THEN IF digitsEnd(s, e + 1) = e + 1 THEN -1 ELSE digitsEnd(s, e + 1)
        ELSE e

RECURSIVE valueEnd(_, _)
RECURSIVE membersEnd(_, _)
RECURSIVE elementsEnd(_, _)

\* The index after the JSON value that starts at or after i (white space
\* skipped), or -1 when there is none.
valueEnd(s, i0) ==
  LET i == skipWs(s, i0)
  IN  IF i >= Len(s) THEN -1
      ELSE LET ch == s[i + 1]
           IN  CASE ch = "{" ->
                      LET j == skipWs(s, i + 1)
                      IN  IF j < Len(s) /\ s[j + 1] = "}" THEN j + 1 ELSE membersEnd(s, j)
                 [] ch = "[" ->
                      LET j == skipWs(s, i + 1)
                      IN  IF j < Len(s) /\ s[j + 1] = "]" THEN j + 1 ELSE elementsEnd(s, j)
                 [] ch = "\"" -> stringEnd(s, i + 1)
                 [] ch \in Digits -> numberEnd(s, i)
                 [] ch = "n" ->
                      IF slice(s, i, i + 4) = << "n", "u", "l", "l" >> THEN i + 4 ELSE -1
                 [] OTHER -> -1

\* "key": value, then ',' and more members, or '}'.
membersEnd(s, i) ==
  IF i >= Len(s) \/ s[i + 1] # "\"" THEN -1
  ELSE LET e == stringEnd(s, i + 1)
           j == IF e = -1 THEN -1 ELSE skipWs(s, e)
           v == IF j = -1 \/ j >= Len(s) \/ s[j + 1] # ":" THEN -1 ELSE valueEnd(s, j + 1)
           k == IF v = -1 THEN -1 ELSE skipWs(s, v)
       IN  IF k = -1 \/ k >= Len(s) THEN -1
           ELSE IF s[k + 1] = "}" THEN k + 1
           ELSE IF s[k + 1] = "," THEN membersEnd(s, skipWs(s, k + 1))
           ELSE -1

\* value, then ',' and more elements, or ']'.
elementsEnd(s, i) ==
  LET v == valueEnd(s, i)
      k == IF v = -1 THEN -1 ELSE skipWs(s, v)
  IN  IF k = -1 \/ k >= Len(s) THEN -1
      ELSE IF s[k + 1] = "]" THEN k + 1
      ELSE IF s[k + 1] = "," THEN elementsEnd(s, k + 1)
      ELSE -1

\* Whether JSON.parse(s) returns (TRUE) or throws a SyntaxError (FALSE).
JsonParses(s) ==
  LET e == valueEnd(s, 0)
  IN  e # -1 /\ skipWs(s, e) = Len(s)

RECURSIVE Unescape(_)
\* The characters a string literal's body denotes.
Unescape(body) ==
  IF body = <<>> THEN <<>>
  ELSE IF body[1] = "\\"
    THEN << CASE body[2] = "n" -> "\n" [] body[2] = "t" -> "\t" [] body[2] = "r" -> "\r"
              [] body[2] = "f" -> "\f" [] OTHER -> body[2] >>
         \o Unescape(SubSeq(body, 3, Len(body)))
    ELSE << body[1] >> \o Unescape(Tail(body))

RECURSIVE valueAt(_, _)
RECURSIVE membersAt(_, _)
RECURSIVE elementsAt(_, _)

\* The value of the well-formed JSON text that starts at or after i.
valueAt(s, i0) ==
  LET i  == skipWs(s, i0)
      ch == s[i + 1]
  IN  CASE ch = "{" ->
             LET j == skipWs(s, i + 1)
             IN  JObj(IF s[j + 1] = "}" THEN << >> ELSE membersAt(s, j))
        [] ch = "[" ->
             LET j == skipWs(s, i + 1)
             IN  JArr(IF s[j + 1] = "]" THEN << >> ELSE elementsAt(s, j))
        [] ch = "\"" -> JStr(Unescape(slice(s, i + 1, stringEnd(s, i + 1) - 1)))
        [] ch \in Digits -> JNum(parseFloat(slice(s, i, numberEnd(s, i))))
        [] OTHER -> JNull

\* The members from the key at i on, as a function; the first of two equal
\* keys gives way to the later one.
membersAt(s, i) ==
  LET e    == stringEnd(s, i + 1)
      key  == Unescape(slice(s, i + 1, e - 1))
      j    == skipWs(s, e)
      k    == skipWs(s, valueEnd(s, j + 1))
      rest == IF s[k + 1] = "," THEN membersAt(s, skipWs(s, k + 1)) ELSE << >>
  IN  [ x \in (DOMAIN rest) \cup { key } |-> IF x \in DOMAIN rest THEN rest[x] ELSE valueAt(s, j + 1) ]

\* The elements from the value at i on, as a sequence.
elementsAt(s, i) ==
  LET k == skipWs(s, valueEnd(s, i))
  IN  << valueAt(s, i) >> \o (IF s[k + 1] = "," THEN elementsAt(s, k + 1) ELSE << >>)

\* JSON.parse(s) when it returns.
JsonValue(s) == valueAt(s, 0)

\* ------------------------------------------------------------ the consumer

\* Bodies of the JSON string literals of a payload, as written between the
\* quotes: plain text, brackets, escaped quotes and backslashes, and the
\* sentinel markers.
StringBodies ==
  { <<>>, << "a" >>, << "{" >>, << "}" >>, << "[" >>, << "]" >>, << "'" >>,
    << "\\", "\"" >>, << "\\", "\\" >>,
    << "a", "{", "\\", "\"" >>, << "}", "]", "\\", "\\" >>,
    startTag, endTag }

\* JSON.stringify(data, null, 2) of an object with one string field, and
\* JSON.stringify of an array of one string and of an object whose key and
\* nested array hold the string; and of the number 12, a payload that has
\* no bracket.
Payloads ==
  { << "1", "2" >> } \cup
  UNION { { << "{", "\n", " ", " " >> \o Quoted(<< "k" >>) \o << ":", " " >> \o Quoted(b)
               \o << "\n", "}" >>,
            << "[" >> \o Quoted(b) \o << "]" >>,
            << "{" >> \o Quoted(b) \o << ":", "[" >> \o Quoted(b) \o << "]", "}" >> }
          : b \in StringBodies }

\* What diagnostics around the payload are made of.
NoisePieces ==
  { << "a" >>, << "{" >>, << "}" >>, << "[" >>, << "\"" >>, startTag, endTag }

RECURSIVE Flatten(_)
Flatten(pieces) == IF pieces = <<>> THEN <<>> ELSE Head(pieces) \o Flatten(Tail(pieces))

\* The texts made of exactly n pieces.
NoiseOf(n) == { Flatten(ps) : ps \in [1..n -> NoisePieces] }

\* The standard output the consumer receives: the payload written bare
\* (process.stdout.write) or between the sentinel lines (console.log).
StdoutText ==
  IF wrapped
    THEN pre \o startTag \o << "\n" >> \o payload \o << "\n" >> \o endTag \o << "\n" >> \o post
    ELSE pre \o payload \o post

InitLocator ==
  /\ variant = "logic" /\ reference = "REF_A"
  /\ argvHeaded = FALSE /\ argvHeadless = FALSE /\ envVal = "unset"
  /\ pc = "idle" /\ trace = <<>> /\ browser = "none"
  /\ launchedHeadless = "none" /\ closeCount = 0
  /\ searchResult = None /\ extractResult = None /\ partial = None
  /\ pending = None /\ outcome = None /\ stdout = <<>> /\ page = NoPage
  /\ impl \in Locators
  /\ wrapped \in BOOLEAN
  /\ payload \in Payloads
  /\ \E n \in 0..MaxNoise : \E m \in 0..(MaxNoise - n) :
       /\ pre \in NoiseOf(n)
       /\ post \in NoiseOf(m)
  /\ lpc = "read"
  /\ jsonSnippet = NotFound
  /\ parsed = FALSE
  /\ sent = JUndef /\ decoded = JUndef /\ result = None

\* What the consumer is given.
received == << pipelineVars, impl, wrapped, pre, payload, post, sent >>

\* const jsonSnippet = extractJson(stdout)
Locate ==
  /\ lpc = "read"
  /\ jsonSnippet' = extractJson(impl, StdoutText)
  /\ lpc' = "located"
  /\ UNCHANGED << received, parsed, decoded, result >>

\* if (!jsonSnippet) throw new Error('No JSON found in scraper output'), which
\* the empty string meets too; else JSON.parse(jsonSnippet). The test
\* harness parses whatever it sliced.
Parse ==
  /\ lpc = "located"
  /\ jsonSnippet.found
  /\ impl = "harness" \/ jsonSnippet.text # <<>>
  /\ parsed' = JsonParses(jsonSnippet.text)
  /\ decoded' = IF parsed' THEN JsonValue(jsonSnippet.text) ELSE JUndef
  /\ lpc' = "parsed"
  /\ UNCHANGED << received, jsonSnippet, result >>

NextLocator == Locate \/ Parse

SpecLocator == InitLocator /\ [][NextLocator]_vars

\* ------------------------------------------------------------ JavaScript values

\* An object with the given properties.
Obj(props) == JObj(FieldsOf(props))

\* v?.key: undefined when v is not an object or has no such property.
Get(v, key) == IF v.t = "obj" /\ Chars(key) \in DOMAIN v.v THEN v.v[Chars(key)] ELSE JUndef

\* Whether a value counts as true: undefined, null, '', 0 and NaN do not.
Truthy(v) ==
  CASE v.t \in {"undef", "null"} -> FALSE
    [] v.t = "str" -> v.v # <<>>
    [] v.t = "num" -> ~v.v.nan /\ v.v # Zero
    [] OTHER -> TRUE

\* a || b
Or(a, b) == IF Truthy(a) THEN a ELSE b

\* Array.isArray(v)
IsArray(v) == v.t = "arr"

\* Number(v) for a number or a string: the number the whole trimmed string
\* spells, 0 for the blank string, NaN otherwise.
Number(v) ==
  CASE v.t = "num" -> v.v
    [] v.t = "str" ->
         LET t == trim(v.v)
         IN  IF t = <<>> THEN Zero
             ELSE IF t[1] \in Digits /\ numberEnd(t, 0) = Len(t) THEN parseFloat(t)
             ELSE NaN
    [] OTHER -> NaN

\* What JSON carries of a value: properties that are undefined are left out,
\* undefined in an array and NaN become null.
RECURSIVE Wire(_)
Wire(v) ==
  CASE v.t = "obj" ->
         JObj([ k \in { x \in DOMAIN v.v : v.v[x].t # "undef" } |-> Wire(v.v[k]) ])
    [] v.t = "arr" -> JArr([ i \in 1..Len(v.v) |-> Wire(v.v[i]) ])
    [] v.t = "undef" -> JNull
    [] v.t = "num" -> IF v.v.nan THEN JNull ELSE v
    [] OTHER -> v

\* ------------------------------------------------------------ the scrape tool

\* index.ts: one element of parsed.packages.map(...)
normalizedPackage(p) ==
  LET w == Get(p, "weight")
  IN  Obj(<< Prop("pieceId", Or(Get(p, "pieceId"), JUndef)),
             Prop("weight", IF w.t = "num" THEN w
                            ELSE IF Truthy(w) THEN JNum(Number(w)) ELSE JUndef),
             Prop("dimensions", Or(Get(p, "dimensions"), JUndef)),
             Prop("trackingEvents", IF IsArray(Get(p, "trackingEvents"))
                                      THEN Get(p, "trackingEvents") ELSE JUndef) >>)

\* index.ts: the single package synthesized when parsed.packages is not an array
synthesizedPackage(raw) ==
  LET pk == Get(raw, "packages")
  IN  Obj(<< Prop("pieceId", Or(Get(pk, "pieceId"), JUndef)),
             Prop("weight", IF pk.t = "num" THEN pk
                            ELSE IF Truthy(Get(pk, "weight")) THEN JNum(Number(Get(pk, "weight")))
                            ELSE JUndef),
             Prop("dimensions", Or(Get(pk, "dimensions"), JUndef)),
             Prop("trackingEvents", IF IsArray(Get(raw, "trackingHistory"))
                                      THEN Get(raw, "trackingHistory") ELSE JUndef) >>)

\* index.ts: const normalized = { ... }
normalized(raw, ref) ==
  LET pk == Get(raw, "packages")
      th == Get(raw, "trackingHistory")
  IN  Obj(<< Prop("reference", Or(Get(raw, "reference"), JStr(Chars(ref)))),
             Prop("sender",
                  Obj(<< Prop("name", Or(Get(Get(raw, "sender"), "name"), JStr(<<>>))),
                         Prop("address", Or(Get(Get(raw, "sender"), "address"), JStr(<<>>))) >>)),
             Prop("receiver",
                  Obj(<< Prop("name", Or(Get(Get(raw, "receiver"), "name"), JStr(<<>>))),
                         Prop("address", Or(Get(Get(raw, "receiver"), "address"), JStr(<<>>))) >>)),
             Prop("packages",
                  IF IsArray(pk) THEN JArr([ i \in 1..Len(pk.v) |-> normalizedPackage(pk.v[i]) ])
                  ELSE JArr(<< synthesizedPackage(raw) >>)),
             Prop("trackingHistory",
                  IF IsArray(th) THEN th
                  ELSE IF IsArray(Get(pk, "trackingEvents")) THEN Get(pk, "trackingEvents")
                  ELSE JArr(<<>>)) >>)

\* The properties of an object that a zod object schema keeps.
Strip(v, keys) == JObj([ k \in (DOMAIN v.v) \cap { Chars(x) : x \in keys } |-> v.v[k] ])

IsString(v) == v.t = "str"
OptionalString(v) == v.t \in {"str", "undef"}

\* types.ts: TrackingEventSchema
ValidEvent(e) ==
  /\ e.t = "obj"
  /\ IsString(Get(e, "date")) /\ IsString(Get(e, "location")) /\ IsString(Get(e, "event"))
  /\ OptionalString(Get(e, "reason"))

ValidEvents(v) == IsArray(v) /\ \A i \in 1..Len(v.v) : ValidEvent(v.v[i])

\* types.ts: PackageSchema
ValidPackage(pk) ==
  /\ pk.t = "obj"
  /\ OptionalString(Get(pk, "pieceId"))
  /\ Get(pk, "weight").t \in {"num", "undef"}
  /\ OptionalString(Get(pk, "dimensions"))
  /\ Get(pk, "trackingEvents").t = "undef" \/ ValidEvents(Get(pk, "trackingEvents"))

\* types.ts: ShipmentSchema
ValidShipment(v) ==
  /\ v.t = "obj"
  /\ IsString(Get(v, "reference"))
  /\ Get(v, "sender").t = "obj" /\ IsString(Get(Get(v, "sender"), "address"))
  /\ Get(v, "receiver").t = "obj" /\ IsString(Get(Get(v, "receiver"), "address"))
  /\ IsArray(Get(v, "packages"))
  /\ \A i \in 1..Len(Get(v, "packages").v) : ValidPackage(Get(v, "packages").v[i])
  /\ ValidEvents(Get(v, "trackingHistory"))

EventKeys == {"date", "location", "event", "reason"}

ParsedEvents(v) == JArr([ i \in 1..Len(v.v) |-> Strip(v.v[i], EventKeys) ])

ParsedPackage(pk) ==
  LET kept == Strip(pk, {"pieceId", "weight", "dimensions", "trackingEvents"})
  IN  JObj([ k \in DOMAIN kept.v |->
               IF k = Chars("trackingEvents") THEN ParsedEvents(kept.v[k]) ELSE kept.v[k] ])

\* ShipmentSchema.parse(data) for data that is valid: the declared keys only.
ShipmentSchemaParse(v) ==
  Obj(<< Prop("reference", Get(v, "reference")),
         Prop("sender", Strip(Get(v, "sender"), {"address"})),
         Prop("receiver", Strip(Get(v, "receiver"), {"address"})),
         Prop("packages", JArr([ i \in 1..Len(Get(v, "packages").v) |->
                                   ParsedPackage(Get(v, "packages").v[i]) ])),
         Prop("trackingHistory", ParsedEvents(Get(v, "trackingHistory"))) >>)

\* return { content: [{ text: `Scraped reference ...` }], structuredContent }
Success(v) == [kind |-> "returned", content |-> "Scraped reference", structuredContent |-> v]

\* The test harness returns the value itself.
Returned(v) == [kind |-> "returned", content |-> "", structuredContent |-> v]

Thrown(err) == [kind |-> "thrown", content |-> err, structuredContent |-> JUndef]

failureResultAsEmpty(version, ref, err) ==
  Success(Obj(<< Prop("reference", JStr(Chars(ref))),
                 Prop("sender", Obj(<< Prop("address", JStr(<<>>)) >>)),
                 Prop("receiver", Obj(<< Prop("address", JStr(<<>>)) >>)),
                 Prop("packages", JArr(<< Obj(<< Prop("weight", JNum(Zero)),
                                               Prop("trackingEvents", JArr(<<>>)) >>) >>)),
                 Prop("trackingHistory", JArr(<<>>)) >>))

\* The handler's catch block: 'Scrape failed: ...' and a record with empty
\* fields, in index.ts with the error's text; the test harness has no catch.
failureResult(version, ref, err) ==
  IF version = "harness" THEN Thrown(err)
  ELSE [ kind |-> "returned", content |-> "Scrape failed",
         structuredContent |->
           Obj(<< Prop("reference", JStr(Chars(ref))),
                  Prop("sender", Obj(<< Prop("name", JStr(<<>>)), Prop("address", JStr(<<>>)) >>)),
                  Prop("receiver", Obj(<< Prop("name", JStr(<<>>)), Prop("address", JStr(<<>>)) >>)),
                  Prop("packages", JArr(<<>>)),
                  Prop("trackingHistory", JArr(<<>>)),
                  Prop("error", IF version = "index" THEN JStr(Chars(err)) ELSE JUndef) >>) ]

\* What the handler does with the value JSON.parse returned.
handled(version, raw, ref) ==
  CASE version = "index" -> Success(normalized(raw, ref))
    [] version = "sentinel" ->
         IF raw.t = "null" THEN failureResult(version, ref, "TypeError")
         ELSE LET structured == Or(Get(raw, "structuredContent"), raw)
              IN  IF ValidShipment(structured) THEN Success(ShipmentSchemaParse(structured))
                  ELSE failureResult(version, ref, "ZodError")
    [] version = "harness" ->
         IF raw.t = "null" THEN failureResult(version, ref, "TypeError")
         ELSE Returned(Or(Get(raw, "structuredContent"), raw))

\* ------------------------------------------------------------ producer and tool

\* What the scraper hands to JSON.stringify: an event, with `reason`
\* undefined when the row has none.
EventLit(e) ==
  LObj(<< Prop("event", JStr(Chars(e.event))),
          Prop("date", JStr(Chars(e.date))),
          Prop("location", JStr(Chars(e.location))),
          Prop("reason", IF "reason" \in DOMAIN e THEN JStr(Chars(e.reason)) ELSE JUndef) >>)

EventsLit(history) == JArr([ i \in 1..Len(history) |-> EventLit(history[i]) ])

\* The record extractShipmentData or createEmptyShipment returns.
ShipmentLit(data) ==
  LObj(<< Prop("reference", JStr(Chars(data.reference))),
          Prop("sender", LObj(<< Prop("address", JStr(Chars(data.sender.address))) >>)),
          Prop("receiver", LObj(<< Prop("address", JStr(Chars(data.receiver.address))) >>)),
          Prop("packages",
               JArr([ i \in 1..Len(data.packages) |->
                        LObj(<< Prop("weight", JNum(data.packages[i].weight)),
                                Prop("trackingEvents", EventsLit(data.packages[i].trackingEvents)) >>) ])),
          Prop("trackingHistory", EventsLit(data.trackingHistory)) >>)

\* Address and weight texts of the pages whose records the tool is explored with.
ToolAddressTexts == {"", "A\"{"}
ToolWeightTexts == { <<>>, << "1", "2", ".", "5", " ", "k", "g" >> }

\* The records a scraper of either version can produce for a reference.
ProducerRecords(ref) ==
  { createEmptyShipment(ref) } \cup
  { ShipmentOf(ref, shipper, consignee, weightStr, History(v, rows)) :
      v \in Variants, rows \in SeqsUpTo(RunDomRows, MaxRunRows),
      shipper \in ToolAddressTexts, consignee \in RunAddressTexts,
      weightStr \in ToolWeightTexts }

\* A record inside the wrapper a tool result has.
Wrapped(lit) == LObj(<< Prop("structuredContent", lit) >>)

AnEvent == EventLit([event |-> "x", date |-> "x", location |-> "x"])

PartyLit == LObj(<< Prop("address", JStr(Chars("Stockholm"))) >>)

\* What a scraper of another version could print: nothing but an empty
\* object, null, a bare package with a string weight, packages in a sequence
\* without a top-level history, a weight that spells no number, null fields,
\* an empty packages sequence.
OtherShapes(ref) ==
  { LObj(<<>>),
    JNull,
    LObj(<< Prop("reference", JStr(Chars(ref))), Prop("sender", PartyLit),
            Prop("receiver", PartyLit),
            Prop("packages", LObj(<< Prop("weight", JStr(<< "1", "2", ".", "5" >>)),
                                     Prop("trackingEvents", JArr(<< AnEvent >>)) >>)) >>),
    LObj(<< Prop("reference", JStr(Chars(ref))), Prop("sender", PartyLit),
            Prop("receiver", PartyLit),
            Prop("packages", JArr(<< LObj(<< Prop("trackingEvents", JArr(<< AnEvent >>)) >>) >>)) >>),
    LObj(<< Prop("reference", JStr(Chars(ref))), Prop("sender", PartyLit),
            Prop("receiver", PartyLit),
            Prop("packages", JArr(<< LObj(<< Prop("weight", JStr(Chars("kg"))),
                                            Prop("trackingEvents", JArr(<< AnEvent >>)) >>) >>)),
            Prop("trackingHistory", JArr(<< AnEvent >>)) >>),
    LObj(<< Prop("reference", JNull), Prop("sender", JNull), Prop("receiver", PartyLit),
            Prop("packages", JArr(<< LObj(<< Prop("weight", JNull) >>) >>)),
            Prop("trackingHistory", JNull) >>),
    LObj(<< Prop("reference", JStr(Chars(ref))), Prop("sender", PartyLit),
            Prop("receiver", PartyLit),
            Prop("packages", JArr(<<>>)),
            Prop("trackingHistory", JArr(<<>>)) >>) }

ProducerLits(ref) == { ShipmentLit(data) : data \in ProducerRecords(ref) }

ToolInputs(ref) ==
  ProducerLits(ref) \cup { Wrapped(lit) : lit \in ProducerLits(ref) } \cup OtherShapes(ref)

\* Output cut short: the text without its last character.
Truncated(text) == SubSeq(text, 1, Len(text) - 1)

\* Diagnostic text before and after the payload.
ToolNoiseBefore == { <<>>, << "a" >>, << "{" >> }
ToolNoiseAfter == { <<>>, << "a" >> }

\* The handler has received the stdout of `npx tsx src/scrape.ts <reference>`.
InitTool ==
  /\ variant = "logic" /\ reference \in References
  /\ argvHeaded = FALSE /\ argvHeadless = FALSE /\ envVal = "unset"
  /\ pc = "idle" /\ trace = <<>> /\ browser = "none"
  /\ launchedHeadless = "none" /\ closeCount = 0
  /\ searchResult = None /\ extractResult = None /\ partial = None
  /\ pending = None /\ outcome = None /\ stdout = <<>> /\ page = NoPage
  /\ impl \in Locators
  /\ wrapped \in BOOLEAN
  /\ sent \in ToolInputs(reference)
  /\ payload \in { Stringify(sent), Truncated(Stringify(sent)) }
  /\ pre \in ToolNoiseBefore
  /\ post \in ToolNoiseAfter
  /\ lpc = "read"
  /\ jsonSnippet = NotFound
  /\ parsed = FALSE
  /\ decoded = JUndef
  /\ result = None

\* if (!jsonSnippet) throw new Error('No JSON found ...'), caught by the
\* handler's catch block; the test harness throws when a brace is missing.
NoJsonFound ==
  /\ lpc = "located"
  /\ ~(jsonSnippet.found /\ (impl = "harness" \/ jsonSnippet.text # <<>>))
  /\ result' = failureResult(impl, reference, "No JSON found")
  /\ lpc' = "done"
  /\ UNCHANGED << received, jsonSnippet, parsed, decoded >>

\* JSON.parse threw: the handler's catch block returns the failure record.
ParseFailed ==
  /\ lpc = "parsed"
  /\ ~parsed
  /\ result' = failureResult(impl, reference, "SyntaxError")
  /\ lpc' = "done"
  /\ UNCHANGED << received, jsonSnippet, parsed, decoded >>

\* The decoded value is normalized (index.ts) or unwrapped and validated
\* (part_002), and returned.
Handle ==
  /\ lpc = "parsed"
  /\ parsed
  /\ result' = handled(impl, decoded, reference)
  /\ lpc' = "done"
  /\ UNCHANGED << received, jsonSnippet, parsed, decoded >>

NextTool == Locate \/ Parse \/ NoJsonFound \/ ParseFailed \/ Handle

SpecTool == InitTool /\ [][NextTool]_vars

\* ------------------------------------------------------------ claims

SearchOps == {"goto", "banner.isVisible", "banner.click", "fill", "click",
              "seeMore.isVisible", "seeMore.click", "waitForTimeout(500)", "waitForTimeout(2000)"}

EvalOps == {"$$eval", "$eval.shipper", "$eval.consignee", "$eval.weight"}

Performed(op, res) == \E i \in 1..Len(trace) : trace[i] = Step(op, res)

Attempted(ops) == \E i \in 1..Len(trace) : trace[i].op \in ops

\* initializeBrowser resolved: runScraper holds a browser and a page.
SessionOpened == Performed("newPage", "ok")

\* C1: in every run whose browser session was opened, browser.close is called
\* exactly once before runScraper settles, and never more than once, whether the
\* search and the extraction succeed, performSearch fails or extractShipmentData
\* fails.
C1_CloseExactlyOnce ==
  /\ closeCount <= 1
  /\ (SessionOpened /\ outcome # None) => (closeCount = 1 /\ browser = "closed")

\* A run that ended on the exit path where extractShipmentData failed.
C1_Witness ==
  /\ pc = "done"
  /\ SessionOpened
  /\ extractResult.kind = "rejected"
  /\ closeCount = 1

\* C2: extractShipmentData never rejects; when the history-row evaluation
\* fails it resolves with the canonical empty record for the reference.
C2_ExtractNeverRejects ==
  /\ extractResult.kind # "rejected"
  /\ Performed("$$eval", "reject") => extractResult = Resolved(createEmptyShipment(reference))

\* The page of the test 'runScraper returns empty shipment when page fails':
\* navigation, fill and submit succeed, the banner click and the see-more click
\* reject, and no DOM evaluation succeeds.
C3_PageFails ==
  /\ Performed("goto", "ok") /\ Performed("fill", "ok") /\ Performed("click", "ok")
  /\ Performed("banner.click", "reject")
  /\ Performed("seeMore.click", "reject")
  /\ \A i \in 1..Len(trace) : trace[i].op \in EvalOps => trace[i].res = "reject"

\* C3: when the page fails in that way, runScraper resolves with the canonical
\* empty record for the reference and the browser is closed.
C3_PageFailureGivesEmptyRecord ==
  (pc = "done" /\ C3_PageFails) =>
    (outcome = Resolved(createEmptyShipment(reference)) /\ browser = "closed")

\* C4: when performSearch fails, extractShipmentData is never invoked, and
\* runScraper rejects with 'Scraper failed for reference r' only after
\* browser.close has completed.
C4_SearchFailureRejectsAfterClose ==
  searchResult.kind = "rejected" =>
    /\ extractResult = None /\ ~Attempted(EvalOps)
    /\ outcome \in {None, ScraperError(reference)}
    /\ outcome # None => (closeCount = 1 /\ browser = "closed")
    /\ pc = "done" => outcome = ScraperError(reference)

\* A finished run whose search failed.
C4_Witness ==
  /\ pc = "done"
  /\ searchResult.kind = "rejected"
  /\ outcome = ScraperError(reference)
  /\ closeCount = 1

\* C5: a rejection of the goto, fill or submit step makes performSearch reject
\* with the single error 'Failed to perform search for reference r', and no
\* later step of the search sequence runs.
C5_SearchStepFailureWrapped ==
  \A i \in 1..Len(trace) :
    (trace[i].op \in {"goto", "fill", "click"} /\ trace[i].res = "reject") =>
      /\ searchResult = SearchError(reference)
      /\ \A j \in (i + 1)..Len(trace) : trace[j].op \notin SearchOps

\* A run in which the fill step rejected and that went on to its end.
C5_Witness ==
  /\ pc = "done"
  /\ Performed("fill", "reject")
  /\ searchResult = SearchError(reference)

\* C6: when navigation, fill and submit succeed, performSearch does not fail,
\* whatever the see-more step does, and it reaches the final settle wait.
C6_SeeMoreNeverFailsSearch ==
  (Performed("goto", "ok") /\ Performed("fill", "ok") /\ Performed("click", "ok")) =>
    /\ searchResult.kind # "rejected"
    /\ pc = "done" => Performed("waitForTimeout(2000)", "ok")

\* The banner step has ended at position i of the trace.
BannerStepEndsAt(i) ==
  \/ trace[i].op = "banner.click"
  \/ trace[i].op = "banner.isVisible" /\ trace[i].res \in {"false", "reject"}

\* C7: whatever the outcome of the banner step (banner absent or not visible,
\* visibility check failing, click failing), the search does not fail there:
\* the next step is the fill, and after a successful fill the submit.
C7_BannerNeverFailsSearch ==
  \A i \in 1..Len(trace) :
    BannerStepEndsAt(i) =>
      /\ IF i = Len(trace)
           THEN pc = "fill" /\ searchResult = None
           ELSE trace[i + 1].op = "fill"
      /\ (i + 1 < Len(trace) /\ trace[i + 1].res = "ok") => trace[i + 2].op = "click"

\* The banner click rejected and the search went on to submit the reference.
C7_Witness ==
  /\ Performed("banner.click", "reject")
  /\ Performed("click", "ok")

\* ---- the consumer's locator

Brackets == {"{", "}", "[", "]"}

HasBracket(t) == \E i \in 1..Len(t) : t[i] \in Brackets

HasMarker(t) == indexOf(t, startTag) # -1 \/ indexOf(t, endTag) # -1

Located == lpc \in {"located", "parsed"}

\* The only sentinel markers of the text are the pair the producer wrote
\* around the payload.
OnePairOfMarkers ==
  wrapped /\ ~HasMarker(pre) /\ ~HasMarker(payload) /\ ~HasMarker(post)

\* C8: when the text holds one START marker followed by one END marker
\* around a JSON block, and brackets outside the markers, the locator returns
\* exactly the trimmed text strictly between the two markers.
C8_SentinelPriority ==
  (Located /\ OnePairOfMarkers /\ (HasBracket(pre) \/ HasBracket(post)))
    => jsonSnippet = Found(trim(<< "\n" >> \o payload \o << "\n" >>))

\* The payload is one top-level JSON object.
IsObject(t) == Head(t) = "{"

\* Text without sentinel markers: bracket-free noise, an object, bracket-free noise.
NoisyObject ==
  /\ ~wrapped
  /\ ~HasMarker(StdoutText)
  /\ ~HasBracket(pre) /\ ~HasBracket(post)
  /\ IsObject(payload)

\* C9: for text without sentinel markers made of bracket-free noise, one
\* top-level JSON object and noise again, the balanced scan returns exactly
\* the object, from its opening brace through the matching closing brace,
\* whatever braces, brackets or escaped quotes its strings hold.
C9_BalancedScanReturnsObject ==
  (Located /\ impl \in {"index", "sentinel"} /\ NoisyObject)
    => jsonSnippet = Found(payload)

\* The object's strings hold an unbalanced brace and an escaped quote, and
\* there is noise on both sides.
C9_Witness ==
  /\ Located /\ impl = "index" /\ NoisyObject
  /\ pre # <<>> /\ post # <<>>
  /\ payload = << "{" >> \o Quoted(<< "a", "{", "\\", "\"" >>) \o << ":", "[" >>
                 \o Quoted(<< "a", "{", "\\", "\"" >>) \o << "]", "}" >>
  /\ jsonSnippet = Found(payload)

\* C10 as stated: whatever diagnostic text stands before and after one
\* well-formed JSON payload, the locator returns the payload, and decoding
\* what it returned succeeds.
C10_AnyNoiseRecoversPayload ==
  Located => /\ jsonSnippet = Found(payload)
             /\ lpc = "parsed" => parsed

\* Diagnostic text that holds no bracket and no sentinel marker, around a
\* JSON object that holds no sentinel marker, written bare or between the
\* sentinel lines.
QuietNoise ==
  /\ ~HasBracket(pre) /\ ~HasBracket(post)
  /\ ~HasMarker(pre) /\ ~HasMarker(post)
  /\ IsObject(payload) /\ ~HasMarker(payload)

\* C10 amended: when the diagnostic text before and after the payload holds
\* none of the characters { } [ ] and no sentinel marker, and the payload is
\* a well-formed JSON object that holds no sentinel marker, every version of
\* the locator returns the payload, and decoding it succeeds.
C10_QuietNoiseRecoversPayload ==
  (Located /\ QuietNoise)
    => /\ jsonSnippet = Found(payload)
       /\ lpc = "parsed" => parsed

\* Log text on both sides of a payload between sentinel lines, located by
\* the sentinels and decoded.
C10_Witness ==
  /\ lpc = "parsed" /\ QuietNoise /\ wrapped /\ impl = "sentinel"
  /\ pre # <<>> /\ post # <<>>
  /\ jsonSnippet = Found(payload)
  /\ parsed

\* ---- headless mode

\* The precedence as documented: the --headed flag, the --headless flag, a
\* true headed override, the environment toggle, headless by default.
C18_Precedence(headed, headless, override, env) ==
  IF headed THEN FALSE
  ELSE IF headless THEN TRUE
  ELSE IF override THEN FALSE
  ELSE ~(env \in {"false", "0"})

\* C18: whatever the flags and the environment, the browser is launched
\* with the headless option the documented precedence gives; runScraper
\* passes process.argv.includes('--headed') as the headed override.
C18_HeadlessPrecedence ==
  Attempted({"launch"})
    => launchedHeadless = C18_Precedence(argvHeaded, argvHeadless, argvHeaded, envVal)

\* ---- extraction

\* extractShipmentData returned the record it assembled from the page.
Assembled == pc = "write" /\ Performed("$$eval", "ok")

Blank(row) == row.date = "" /\ row.location = ""

\* C19: in the record extractShipmentData returns, a row with neither date
\* nor location contributes no event to trackingHistory and every other row
\* contributes exactly one.
C19_RowDrop ==
  Assembled =>
    LET history == extractResult.value.trackingHistory
        kept    == { i \in 1..Len(page.rows) : ~Blank(page.rows[i]) }
    IN  /\ Len(history) = Cardinality(kept)
        /\ \A j \in 1..Len(history) : history[j].date # "" \/ history[j].location # ""
        /\ \A i \in kept : \E j \in 1..Len(history) :
             /\ history[j].date = page.rows[i].date
             /\ history[j].location = page.rows[i].location

\* What the record holds for a scalar field whose read had the given result.
FieldAfter(op, value, default) == IF Performed(op, "reject") THEN default ELSE value

\* C20: when the read of the shipper address, of the consignee address or
\* of the weight text fails, that field takes its default ("" or 0), and the
\* other scalar fields and the tracking history keep what the page shows.
C20_FieldIsolation ==
  Assembled =>
    LET data == extractResult.value
    IN  /\ data.sender.address = FieldAfter("$eval.shipper", page.shipper, "")
        /\ data.receiver.address = FieldAfter("$eval.consignee", page.consignee, "")
        /\ data.packages[1].weight = FieldAfter("$eval.weight", ParseWeight(page.weight), Zero)
        /\ data.trackingHistory = History(variant, page.rows)
        /\ data.packages[1].trackingEvents = data.trackingHistory

\* The shipper read failed on a page that shows a shipper; the consignee, the
\* weight and a history row were read.
C20_Witness ==
  /\ Assembled
  /\ Performed("$eval.shipper", "reject")
  /\ Performed("$eval.consignee", "ok") /\ Performed("$eval.weight", "ok")
  /\ page.shipper # "" /\ page.consignee # "" /\ page.rows # <<>>
  /\ extractResult.value.sender.address = ""
  /\ extractResult.value.receiver.address = page.consignee
  /\ extractResult.value.packages[1].weight = [nan |-> FALSE, int |-> 12, frac |-> << "5" >>]

\* ---- 'not found'

\* The index of the first '{' or '[' of the text, -1 when it has neither.
FirstOpening(s) ==
  LET opens == { i \in 0..(Len(s) - 1) : s[i + 1] \in {"{", "["} }
  IN  IF opens = {} THEN -1 ELSE CHOOSE i \in opens : \A j \in opens : i <= j

RECURSIVE DepthReturns(_, _, _, _, _)
\* Whether the nesting depth, counted from index i on in state st, returns to
\* zero before the end of the text.
DepthReturns(s, i, st, openChar, closeChar) ==
  IF i >= Len(s) THEN FALSE
  ELSE LET nx == IF st.inString THEN ScanInString(st, s[i + 1])
                 ELSE ScanOutside(st, s[i + 1], openChar, closeChar)
       IN  (~st.inString /\ nx.depth = 0) \/ DepthReturns(s, i + 1, nx, openChar, closeChar)

\* The depth counted from the first opening character returns to zero.
DepthReturnsToZero(s) ==
  LET start == FirstOpening(s)
  IN  /\ start # -1
      /\ DepthReturns(s, start, ScanStart, s[start + 1], IF s[start + 1] = "{" THEN "}" ELSE "]")

\* The locator takes the text between an ordered pair of sentinels.
PairUsed == impl = "sentinel" /\ sentinelPair(StdoutText)

IsSubstring(t, s) == indexOf(s, t) # -1

NotFoundCase == ~PairUsed /\ ~DepthReturnsToZero(StdoutText)

\* C11 as stated: extractJson returns null exactly when no ordered sentinel
\* pair is used and the text has no '{' or '[' or the depth counted from the
\* first of them never returns to zero; in every other case it returns a
\* non-empty substring of the text.
C11_NullExactlyWhenNothingBalanced ==
  (Located /\ impl \in {"index", "sentinel"}) =>
    /\ jsonSnippet = NotFound <=> NotFoundCase
    /\ ~NotFoundCase => /\ jsonSnippet.text # <<>>
                        /\ IsSubstring(jsonSnippet.text, StdoutText)

\* C11 amended: extractJson returns null exactly in that case; in every
\* other case it returns a substring of the text, which is non-empty when it
\* comes from the balanced scan and can be empty when an ordered sentinel
\* pair encloses white space only.
C11_NullExactlyOrSubstring ==
  (Located /\ impl \in {"index", "sentinel"}) =>
    /\ jsonSnippet = NotFound <=> NotFoundCase
    /\ ~NotFoundCase => /\ jsonSnippet.found
                        /\ IsSubstring(jsonSnippet.text, StdoutText)
                        /\ ~PairUsed => jsonSnippet.text # <<>>

\* The text has an opening bracket whose depth never returns to zero, and the
\* locator returned null.
C11_Witness ==
  /\ Located /\ impl = "sentinel" /\ ~PairUsed
  /\ pre # <<>>
  /\ FirstOpening(StdoutText) # -1
  /\ FirstOpening(payload) # -1
  /\ ~DepthReturnsToZero(StdoutText)
  /\ jsonSnippet = NotFound

\* ---- the scrape tool

Done == lpc = "done"

\* The handler of index.ts or of part_002, not the test harness.
IsHandler == impl \in {"index", "sentinel"}

\* extractJson gave nothing to decode.
LocateFailed == ~(jsonSnippet.found /\ (impl = "harness" \/ jsonSnippet.text # <<>>))

\* JSON.parse threw on what extractJson gave.
DecodeFailed == ~LocateFailed /\ ~JsonParses(jsonSnippet.text)

\* What the handler returns when the scraper printed the canonical empty
\* record and nothing else.
FoundNothing ==
  handled(impl, Wire(Value(ShipmentLit(createEmptyShipment(reference)))), reference)

C13_PackagesNonEmpty ==
  (Done /\ IsHandler /\ result.kind = "returned") =>
    /\ IsArray(Get(result.structuredContent, "packages"))
    /\ Len(Get(result.structuredContent, "packages").v) >= 1

\* JSON.parse returned the value the producer serialized.
DecodedAsSent == parsed /\ decoded = Wire(Value(sent))

\* C14: for a schema-valid shipment S, what the consumer makes of
\* {structuredContent: S} is what it makes of S itself.
C14_WrapperUnwrap ==
  \A lit \in ProducerLits(reference) :
    (Done /\ sent = Wrapped(lit) /\ DecodedAsSent)
      => result = handled(impl, Wire(Value(lit)), reference)

\* A package of the normalizer's output has a number as weight and a
\* sequence as trackingEvents.
DefaultedPackage(pk) ==
  /\ Get(pk, "weight").t = "num" /\ ~Get(pk, "weight").v.nan
  /\ IsArray(Get(pk, "trackingEvents"))

\* C15: whatever was decoded, the normalizer's output has a string for
\* every string field, a number for every package weight and a sequence for
\* every trackingEvents and for trackingHistory, none of them undefined or null.
C15_EveryFieldDefaulted ==
  (Done /\ impl = "index" /\ result.content = "Scraped reference") =>
    LET out == result.structuredContent
    IN  /\ IsString(Get(out, "reference"))
        /\ IsString(Get(Get(out, "sender"), "address"))
        /\ IsString(Get(Get(out, "receiver"), "address"))
        /\ IsArray(Get(out, "packages"))
        /\ \A i \in 1..Len(Get(out, "packages").v) : DefaultedPackage(Get(out, "packages").v[i])
        /\ IsArray(Get(out, "trackingHistory"))

\* The first package of a decoded value: the first element when packages is
\* a sequence, packages itself when it is a bare object.
FirstPackage(value) ==
  LET pk == Get(value, "packages")
  IN  IF IsArray(pk) THEN (IF pk.v = <<>> THEN JUndef ELSE pk.v[1]) ELSE pk

\* C16: the normalizer's trackingHistory is the decoded top-level
\* trackingHistory when there is one, else the trackingEvents of the first
\* package, also when packages is a sequence, else the empty sequence.
C16_HistoryFallback ==
  (Done /\ impl = "index" /\ result.content = "Scraped reference") =>
    Get(result.structuredContent, "trackingHistory")
      = IF IsArray(Get(decoded, "trackingHistory")) THEN Get(decoded, "trackingHistory")
        ELSE IF IsArray(Get(FirstPackage(decoded), "trackingEvents"))
               THEN Get(FirstPackage(decoded), "trackingEvents")
        ELSE JArr(<<>>)

\* The payload is whole, and nothing around it has a bracket.
CleanStdout ==
  /\ payload = Stringify(sent)
  /\ ~HasBracket(pre) /\ ~HasBracket(post)

\* C17: a record produced by extractShipmentData, serialized, located,
\* decoded and normalized, comes out with exactly its keys and values.
C17_NormalizeIsIdentity ==
  (Done /\ IsHandler /\ sent \in ProducerLits(reference) /\ CleanStdout) =>
    /\ result.content = "Scraped reference"
    /\ Wire(result.structuredContent) = Wire(Value(sent))

\* ---- C21 .. C30

\* The weight text extractShipmentData parsed: what the page shows, or '' when
\* the read of the weight element failed.
WeightRead == IF Performed("$eval.weight", "reject") THEN <<>> ELSE page.weight

\* C21: the package weight is the number parsed from the weight text with
\* every character other than a digit or '.' removed, and 0 when that text
\* is empty or does not parse; it is never NaN and never negative.  The
\* canonical empty record has weight 0 as well.
C21_WeightCoercion ==
  /\ Assembled =>
       LET filtered == StripNonNumeric(WeightRead)
           number   == parseFloat(filtered)
           weight   == extractResult.value.packages[1].weight
       IN  /\ ~weight.nan /\ weight.int >= 0
           /\ weight = IF filtered = <<>> \/ number.nan THEN Zero ELSE number
  /\ (pc = "write" /\ ~Assembled) => extractResult.value.packages[1].weight = Zero

\* The page shows "1 2,5", the read succeeded, and the weight is 125.
C21_Witness ==
  /\ Assembled /\ Performed("$eval.weight", "ok")
  /\ page.weight = <<"1", " ", "2", ",", "5">>
  /\ extractResult.value.packages[1].weight = [nan |-> FALSE, int |-> 125, frac |-> <<>>]

\* The event shows the date, the location and the label of the row.
ShowsRow(event, row) ==
  /\ event.date = row.date /\ event.location = row.location
  /\ event.event = IF row.event = "" THEN "Status Update" ELSE row.event

\* The events are those of some of the rows, in the rows' order.
InRowOrder(events, rows) ==
  \E f \in [1..Len(events) -> 1..Len(rows)] :
    /\ \A j \in 1..Len(events) : ShowsRow(events[j], rows[f[j]])
    /\ \A j, k \in 1..Len(events) : j < k => f[j] < f[k]

\* C22: in every record extractShipmentData returns, trackingHistory and the
\* first package's trackingEvents are the same sequence, and its events
\* follow the order of the page's rows.
C22_SameOrderedHistory ==
  pc = "write" =>
    LET data == extractResult.value
    IN  /\ data.trackingHistory = data.packages[1].trackingEvents
        /\ Assembled => InRowOrder(data.trackingHistory, page.rows)
        /\ ~Assembled => data.trackingHistory = <<>>

\* Two different rows were read and both sequences hold them in page order.
C22_Witness ==
  /\ Assembled /\ Len(page.rows) = 2
  /\ page.rows[1].date = "x" /\ page.rows[1].location = ""
  /\ page.rows[2].date = "" /\ page.rows[2].location = "x"
  /\ Len(extractResult.value.packages[1].trackingEvents) = 2
  /\ extractResult.value.trackingHistory[1].date = "x"
  /\ extractResult.value.trackingHistory[2].location = "x"

\* C23: every record made for an invocation with reference r carries r: the
\* record the scraper serialized (assembled by extractShipmentData, or the
\* canonical empty record) where it names a reference, and the
\* structuredContent the scrape tool returns when it succeeds and when it
\* fails.
C23_ReferenceCarried ==
  /\ Get(Value(sent), "reference").t = "str" =>
       Get(Value(sent), "reference") = JStr(Chars(reference))
  /\ (Done /\ IsHandler) =>
       Get(result.structuredContent, "reference") = JStr(Chars(reference))

\* The tool failed for REF_B and its record names REF_B.
C23_Witness ==
  /\ Done /\ IsHandler /\ reference = "REF_B"
  /\ result.content = "Scrape failed"
  /\ Get(result.structuredContent, "reference") = JStr(Chars("REF_B"))

HasReason(event) == "reason" \in DOMAIN event

\* C24: every event of the record extractShipmentData returns has a
\* non-empty label, 'Status Update' when its row has none, and a reason
\* that is absent when the row shows none and the row's text otherwise,
\* never the empty string.
C24_EventLabelAndReason ==
  Assembled =>
    \A j \in 1..Len(extractResult.value.trackingHistory) :
      LET event == extractResult.value.trackingHistory[j]
      IN  /\ event.event # ""
          /\ HasReason(event) => event.reason # ""
          /\ \E i \in 1..Len(page.rows) :
               /\ ShowsRow(event, page.rows[i])
               /\ HasReason(event) <=> page.rows[i].reason # ""
               /\ HasReason(event) => event.reason = page.rows[i].reason

\* A row with a date and no label and no reason gave an event labelled
\* 'Status Update' without a reason.
C24_Witness ==
  /\ Assembled /\ Len(page.rows) = 1
  /\ page.rows[1].event = "" /\ page.rows[1].reason = "" /\ page.rows[1].date = "x"
  /\ Len(extractResult.value.trackingHistory) = 1
  /\ extractResult.value.trackingHistory[1].event = "Status Update"
  /\ ~HasReason(extractResult.value.trackingHistory[1])

\* A record with the fields of a shipment: a reference, the two parties' addresses,
\* at least one package with a weight that is a number, and the history.
IsShipmentRecord(v) ==
  /\ {"reference", "sender", "receiver", "packages", "trackingHistory"} \subseteq DOMAIN v
  /\ "address" \in DOMAIN v.sender /\ "address" \in DOMAIN v.receiver
  /\ Len(v.packages) >= 1
  /\ \A i \in 1..Len(v.packages) : ~v.packages[i].weight.nan

\* C25: a run of runScraper that has settled either resolved with a shipment
\* record or rejected with an error; it did not resolve with undefined.
C25_RecordOrError ==
  pc = "done" =>
    \/ outcome.kind = "rejected"
    \/ outcome.kind = "resolved" /\ IsShipmentRecord(outcome.value)

\* C26: acceptCookies clicks the consent button when isVisible answered true,
\* and makes no click when it answered false or rejected.
C26_ClickIffVisible ==
  variant = "logic" =>
    /\ Attempted({"banner.click"}) => Performed("banner.isVisible", "true")
    /\ (Performed("banner.isVisible", "true") /\ pc # "bannerClick")
         => Attempted({"banner.click"})
    /\ (Performed("banner.isVisible", "false") \/ Performed("banner.isVisible", "reject"))
         => ~Attempted({"banner.click"}) /\ pc # "bannerClick"

\* The button was visible and was clicked.
C26_Witness ==
  /\ variant = "logic"
  /\ Performed("banner.isVisible", "true")
  /\ Performed("banner.click", "ok")

\* The place of an operation in the documented order of a run: open,
\* navigate, banner dismissal, fill, submit, see-more, settle, extract,
\* write, close.
StepRank(op) ==
  CASE op = "launch" -> 1 [] op = "newContext" -> 2 [] op = "newPage" -> 3
    [] op = "goto" -> 4
    [] op = "banner.isVisible" -> 5 [] op = "banner.click" -> 6
    [] op = "fill" -> 7
    [] op = "click" -> 8
    [] op = "seeMore.isVisible" -> 9 [] op = "seeMore.click" -> 10
    [] op = "waitForTimeout(500)" -> 11
    [] op = "waitForTimeout(2000)" -> 12
    [] op = "$$eval" -> 13 [] op = "$eval.shipper" -> 14 [] op = "$eval.consignee" -> 15
    [] op = "$eval.weight" -> 16
    [] op = "stdout.write" -> 17
    [] op = "close" -> 18

\* C27: the operations of a run happen one after the other in the
\* documented order, each at most once and none after an operation that
\* failed the search; fill and submit do not happen after a failed
\* navigation, and the page is evaluated only after navigation, fill, submit
\* and the settle wait have succeeded.
C27_FixedOrder ==
  /\ \A i, j \in 1..Len(trace) : i < j => StepRank(trace[i].op) < StepRank(trace[j].op)
  /\ Performed("goto", "reject") => ~Attempted({"banner.isVisible", "banner.click", "fill", "click"})
  /\ Performed("fill", "reject") => ~Attempted({"click"})
  /\ Attempted(EvalOps) =>
       /\ Performed("goto", "ok") /\ Performed("fill", "ok") /\ Performed("click", "ok")
       /\ Performed("waitForTimeout(2000)", "ok")
       /\ searchResult = Resolved("undefined")
  /\ Attempted({"goto"}) => Performed("newPage", "ok")

\* A run in which every step succeeded, the see-more control included,
\* and the browser was closed.
C27_Witness ==
  /\ pc = "done" /\ outcome.kind = "resolved"
  /\ Performed("seeMore.click", "ok") /\ Performed("banner.click", "ok")
  /\ Performed("$eval.weight", "ok") /\ Performed("close", "ok")
  /\ trace[Len(trace)].op = "close"

\* The positions of an operation in the run.
StepsOf(ops) == { i \in 1..Len(trace) : trace[i].op \in ops }

\* The records on standard output (part_007 prints three more lines around its record).
RecordsWritten == { i \in 1..Len(stdout) : "reference" \in DOMAIN stdout[i] }

\* The run is in, or went through, runScraper's catch block.
RunFailed ==
  \/ pc \in {"catch", "L.catch"}
  \/ pending.kind = "rejected"
  \/ pending.kind = "resolved" /\ "undefined" \in DOMAIN pending.value

C29_NoBrowserLeftOpen ==
  (pc = "done" /\ Performed("launch", "ok")) => browser = "closed" /\ closeCount = 1

\* C30: the headless option runScraper launches the browser with, through
\* initializeBrowser(argv.includes('--headed')), is what resolveHeadless()
\* returns for the same flags and environment.
C30_LaunchMatchesResolveHeadless ==
  Attempted({"launch"}) => launchedHeadless = resolveHeadless(argvHeaded, argvHeadless, envVal)
====
